---- MODULE Spec2Model ----
(***************************************************************************)
(* Lifecycle of one exchange connector of crypto-orderbook: Connect,       *)
(* GetSnapshot, readMessages, pingLoop, reconnect and Close of the Kraken, *)
(* Hyperliquid futures, Binance futures and Bybit futures connectors,      *)
(* with the update channel, the done channel, the context and the          *)
(* WebSocket connections they share.  One goroutine step is one action.    *)
(***************************************************************************)
EXTENDS Integers, Sequences, FiniteSets, TLC

\* ------------------------------------------------------------------ bounds
\* connections one connector may open in a run
MaxConns == 2
\* frames the venue delivers in a run
MaxFrames == 3
\* capacity of updateChan used for checking (the code allocates 1000 or 5000)
ChanCap == 1
\* calls of Close() in a run
MaxCloseCalls == 2
\* calls of Connect() by the engine in a run
MaxConnectCalls == 2

\* --------------------------------------------------------- program constants
\* reconnect: maxAttempts := 10
maxAttempts == 10
\* reconnect: backoff := time.Duration(attempt) * 5 * time.Second
backoffBase == 5
\* reconnect: if backoff > 30*time.Second { backoff = 30 * time.Second }
backoffCap == 30

\* ---------------------------------------------------------------- venues
Venues == {"kraken", "hyperliquid", "binance", "bybit"}

ConnIds == 1..MaxConns
CloseIds == 1..MaxCloseCalls
\* a reconnect goroutine is started by the read loop ("r") or the ping loop
\* ("p") that ran on connection c; each of them starts at most one
ReconIds == {"r", "p"} \X ConnIds

NoUpdate == [first |-> 0, prev |-> 0, final |-> 0, isSnapshot |-> FALSE, seq |-> 0]
\* a reconnect goroutine that was not started: attempt is the loop variable,
\* delay the last backoff computed (seconds) and delayOf the attempt it was computed in
NoReconnect == [pc |-> "none", attempt |-> 0, conn |-> 0, delay |-> 0, delayOf |-> 0]
\* no GetSnapshot call was made yet (status: the HTTP status of the REST answer)
NoCall == [pc |-> "none", local |-> FALSE, snap |-> 0, err |-> "nil", status |-> 0]

VARIABLES
    venue,          \* which connector this instance is
    ctxDone,        \* e.ctx cancelled (e.cancel() was called)
    done,           \* e.done closed
    wsConn,         \* e.wsConn: 0 is nil, otherwise a connection id
    connState,      \* per connection: "none", "open", "broken", "closed"
    updateChan,     \* e.updateChan: [closed, buf]
    reconnecting,   \* e.reconnecting (atomic.Bool)
    lastPingSet,    \* health.LastPing is not the zero time
    lastSeq,        \* bybit e.lastSeq
    engine,         \* the caller of the first Connect: [pc, conn]
    reader,         \* readMessages goroutines, by the connection they were started for:
                    \* [pc, conn, frame, last]; last (followed on Bybit) is the sequence
                    \* number of the book frame the loop read last (0: none yet)
    pinger,         \* pingLoop goroutines, by the connection they were started for
    recon,          \* reconnect goroutines
    closer,         \* Close() calls
    panic,          \* "none" or the runtime panic that ended the process
    venueSeq,       \* sequence id of the last frame the venue delivered
    lastEmitted,    \* final id of the last update sent on updateChan (0: none yet)
    consumerEnded,  \* the consumer ranging over Updates() saw the channel closed
    snapshot,       \* e.snapshot is not nil (Kraken, Bybit)
    snapshotReceived, \* e.snapshotReceived (Kraken, Bybit)
    snapDelivered,  \* per connection: the venue's snapshot frame was read from it
    getSnap,        \* the GetSnapshot call: [pc, local, snap, err]
    retained,       \* an update was taken from the stream after GetSnapshot returned
    lastSentSeq,    \* frame number of the last update sent on updateChan (0: none yet)
    connected,      \* health.Connected
    wire,           \* one price level on its way through a connector: [sent, emitted, repr]
    book,           \* an order book: [bids, asks, bestBid, bestAsk, lastUpdateID]
    lastOp,         \* the operation last carried out on the book: [op, hadLevels, nonPositive]
    depth,          \* levels held on each side of a full-depth book: [bids, asks]
    tickSize,       \* the server's aggregation tick
    frame,          \* the frames of the last broadcast: [type, bids, asks, stats, depth]
    clients,        \* per client of the server: [connected, send, fullTicks]
    bcast,          \* the server's broadcast task: [pc, tick, next]
    bookLock,       \* who holds the book's mutex: "free", "broadcast", "ingest"
    symbolEngine,   \* runMultiExchange: [pc, symbol, done]
    exchanges,      \* per venue, the engine's task for it: [pc, symbol, connector]
    orderbooksMap,  \* per venue, the symbol of the updates in its book (0: none)
    health,         \* e.health: the HealthStatus last stored
    healthTask,     \* per task, the helper it is in: [pc, call, status]
    healthCalls,    \* helper calls begun, and what the completed ones did:
                    \* [begun, messages, errors, status]
    hook            \* one instance of the browser hook useWebSocket

\* the state of one connector
connectorVars == <<venue, ctxDone, done, wsConn, connState, updateChan, reconnecting,
                   lastPingSet, lastSeq, engine, reader, pinger, recon, closer, panic,
                   venueSeq, lastEmitted, consumerEnded, snapshot, snapshotReceived,
                   snapDelivered, getSnap, retained, lastSentSeq, connected>>
\* the state of the components around it
decimalVars == <<wire>>
bookVars == <<book, lastOp>>
viewVars == <<depth, tickSize, frame>>
serverVars == <<clients, bcast, bookLock>>
switchVars == <<symbolEngine, exchanges, orderbooksMap>>
healthVars == <<health, healthTask, healthCalls>>
hookVars == <<hook>>
componentVars == <<decimalVars, bookVars, viewVars, serverVars, switchVars, healthVars,
                   hookVars>>

vars == <<connectorVars, componentVars>>

\* ------------------------------------------------------- venue differences
\* Kraken and Hyperliquid have reconnect() and pingLoop(); Binance and Bybit do not
HasReconnect == venue \in {"kraken", "hyperliquid"}
HasPingLoop == venue \in {"kraken", "hyperliquid"}
\* Connect sends a subscription frame before starting the workers
HasSubscribe == venue \in {"kraken", "hyperliquid", "bybit"}
\* readMessages has `defer close(e.updateChan)`
ReadLoopClosesChan == venue \in {"hyperliquid", "binance", "bybit"}
\* Close() ends with close(e.updateChan)
CloseClosesChan == venue = "kraken"
\* Close() closes e.done before looking at e.wsConn
CloseDoneFirst == venue \in {"kraken", "hyperliquid"}
\* Close() keeps the connection in a local variable (read under wsConnMu)
CloseUsesLocalConn == venue = "hyperliquid"
\* Connect closes the connection when the subscription write fails
SubFailClosesConn == venue \in {"kraken", "bybit"}
\* reconnect dials with e.ctx, so a cancelled context fails the dial
ReconDialUsesCtx == venue = "hyperliquid"
\* the snapshot arrives in band, as the first book frame of a connection
InBandSnapshot == venue \in {"kraken", "bybit"}
\* frame kinds the read loop distinguishes: "update" is emitted, "control" is skipped
FrameKinds ==
    CASE venue = "binance" -> {"update"}
      [] venue = "hyperliquid" -> {"update", "control"}
      [] OTHER -> {"snapshot", "update", "control"}

\* ---------------------------------------------------------------- helpers
NextConn == Cardinality({c \in ConnIds : connState[c] # "none"}) + 1
Alive == panic = "none"

\* close(ch) on a channel value: the new value of the panic variable
ClosePanic(closed) == IF closed THEN "close of closed channel" ELSE "none"

\* a connector as its constructor leaves it
ConnectorInit ==
    /\ venue \in Venues
    /\ ctxDone = FALSE
    /\ done = FALSE
    /\ wsConn = 0
    /\ connState = [c \in ConnIds |-> "none"]
    /\ updateChan = [closed |-> FALSE, buf |-> <<>>]
    /\ reconnecting = FALSE
    /\ lastPingSet = FALSE
    /\ lastSeq = 0
    /\ engine = [pc |-> "idle", conn |-> 0, calls |-> 0, again |-> FALSE]
    /\ reader = [c \in ConnIds |-> [pc |-> "none", conn |-> 0, frame |-> NoUpdate, last |-> 0]]
    /\ pinger = [c \in ConnIds |-> "none"]
    /\ recon = [r \in ReconIds |-> NoReconnect]
    /\ closer = [k \in CloseIds |-> [pc |-> "none", conn |-> 0]]
    /\ panic = "none"
    /\ venueSeq = 0
    /\ lastEmitted = 0
    /\ consumerEnded = FALSE
    /\ snapshot = FALSE
    /\ snapshotReceived = FALSE
    /\ snapDelivered = [c \in ConnIds |-> FALSE]
    /\ getSnap = NoCall
    /\ retained = FALSE
    /\ lastSentSeq = 0
    /\ connected = FALSE

\* ---------------------------------------------------------------- Connect
\* dialer.DialContext succeeded: the connection exists and is stored in e.wsConn
DialOk(c) ==
    /\ connState' = [connState EXCEPT ![c] = "open"]
    /\ wsConn' = c
    /\ connected' = TRUE

\* go e.readMessages() (and go e.pingLoop()) at the end of a successful Connect
StartWorkers(c) ==
    /\ reader' = [reader EXCEPT ![c] = [pc |-> "select", conn |-> 0, frame |-> NoUpdate,
                                         last |-> 0]]
    /\ pinger' = IF HasPingLoop THEN [pinger EXCEPT ![c] = "run"] ELSE pinger

\* conn.WriteJSON(subscribe) can succeed unless the connection was closed locally
SubscribeCanSucceed(c) == connState[c] \in {"open", "broken"}

\* the failure path of the subscription write
SubscribeFail(c) ==
    connState' = IF SubFailClosesConn THEN [connState EXCEPT ![c] = "closed"] ELSE connState

\* the engine calls Connect on the new connector, before any Close
EngineConnect ==
    /\ Alive
    /\ engine.pc = "idle"
    /\ \A k \in CloseIds : closer[k].pc = "none"
    /\ engine' = [engine EXCEPT !.pc = "dial", !.calls = 1]
    /\ UNCHANGED <<snapshot, snapshotReceived, snapDelivered, getSnap, retained,
                   lastSentSeq>>
    /\ UNCHANGED connected
    /\ UNCHANGED componentVars
    /\ UNCHANGED <<venue, ctxDone, done, wsConn, connState, updateChan, reconnecting,
                   lastPingSet, lastSeq, reader, pinger, recon, closer, panic,
                   venueSeq, lastEmitted, consumerEnded>>

\* the engine calls Connect again after a call that returned nil; `again`
\* records that e.wsConn was not nil then (IsConnected() was true)
EngineConnectAgain ==
    /\ Alive
    /\ engine.pc = "up"
    /\ engine.calls < MaxConnectCalls
    /\ \A k \in CloseIds : closer[k].pc = "none"
    /\ engine' = [engine EXCEPT !.pc = "dial", !.calls = @ + 1, !.again = (wsConn # 0)]
    /\ UNCHANGED <<snapshot, snapshotReceived, snapDelivered, getSnap, retained,
                   lastSentSeq>>
    /\ UNCHANGED connected
    /\ UNCHANGED componentVars
    /\ UNCHANGED <<venue, ctxDone, done, wsConn, connState, updateChan, reconnecting,
                   lastPingSet, lastSeq, reader, pinger, recon, closer, panic,
                   venueSeq, lastEmitted, consumerEnded>>

EngineDial ==
    /\ Alive
    /\ engine.pc = "dial"
    /\ \/ /\ engine' = [engine EXCEPT !.pc = "failed", !.conn = 0]
          /\ UNCHANGED <<wsConn, connState, connected, reader, pinger>>
       \/ /\ NextConn <= MaxConns
          /\ DialOk(NextConn)
          /\ IF HasSubscribe
                THEN /\ engine' = [engine EXCEPT !.pc = "sub", !.conn = NextConn]
                     /\ UNCHANGED <<reader, pinger>>
                ELSE /\ engine' = [engine EXCEPT !.pc = "up", !.conn = 0]
                     /\ StartWorkers(NextConn)
    /\ UNCHANGED <<snapshot, snapshotReceived, snapDelivered, getSnap, retained,
                   lastSentSeq>>
    /\ UNCHANGED componentVars
    /\ UNCHANGED <<venue, ctxDone, done, updateChan, reconnecting, lastPingSet, lastSeq,
                   recon, closer, panic, venueSeq, lastEmitted, consumerEnded>>

EngineSubscribe ==
    /\ Alive
    /\ engine.pc = "sub"
    /\ \/ /\ SubscribeCanSucceed(engine.conn)
          /\ StartWorkers(engine.conn)
          /\ engine' = [engine EXCEPT !.pc = "up", !.conn = 0]
          /\ UNCHANGED connState
       \/ /\ SubscribeFail(engine.conn)
          /\ engine' = [engine EXCEPT !.pc = "failed", !.conn = 0]
          /\ UNCHANGED <<reader, pinger>>
    /\ UNCHANGED <<snapshot, snapshotReceived, snapDelivered, getSnap, retained,
                   lastSentSeq>>
    /\ UNCHANGED connected
    /\ UNCHANGED componentVars
    /\ UNCHANGED <<venue, ctxDone, done, wsConn, updateChan, reconnecting, lastPingSet,
                   lastSeq, recon, closer, panic, venueSeq, lastEmitted, consumerEnded>>

\* ------------------------------------------------------------ readMessages
\* a conversion that takes the id of the update sent last as the previous id
prevSent == lastEmitted

\* Bybit convertDepthUpdate: prevSeq := e.lastSeq
prevSeq == lastSeq

\* the canonical update built from the frame with sequence id seq
\* (no connector sets IsSnapshot; seq is the number of the frame it was built from)
convertDepthUpdate(seq) ==
    CASE venue = "binance" ->
           [first |-> seq, prev |-> seq - 1, final |-> seq, isSnapshot |-> FALSE, seq |-> seq]
      [] venue = "bybit" ->
           [first |-> seq, prev |-> prevSeq, final |-> seq, isSnapshot |-> FALSE, seq |-> seq]
      [] venue = "hyperliquid" ->
           [first |-> seq, prev |-> seq - 1, final |-> seq, isSnapshot |-> FALSE, seq |-> seq]
      [] OTHER ->
           [first |-> 0, prev |-> 0, final |-> 0, isSnapshot |-> FALSE, seq |-> seq]

\* return from readMessages: the deferred calls run, and `go e.reconnect()`
\* was issued just before when trigger is TRUE
ReaderReturn(c, trigger) ==
    /\ reader' = [reader EXCEPT ![c] = [pc |-> "gone", conn |-> 0, frame |-> NoUpdate,
                                         last |-> 0]]
    /\ connected' = FALSE
    /\ recon' = IF trigger
                  THEN [recon EXCEPT ![<<"r", c>>] = [NoReconnect EXCEPT !.pc = "cas"]]
                  ELSE recon
    /\ IF ReadLoopClosesChan
          THEN /\ panic' = ClosePanic(updateChan.closed)
               /\ updateChan' = [updateChan EXCEPT !.closed = TRUE]
          ELSE UNCHANGED <<panic, updateChan>>

\* top of the loop: select on ctx.Done / done, default: pick up e.wsConn
ReadSelect(c) ==
    /\ Alive
    /\ reader[c].pc = "select"
    /\ IF ctxDone \/ done
          THEN ReaderReturn(c, FALSE)
          ELSE IF HasReconnect /\ wsConn = 0
                 THEN ReaderReturn(c, TRUE)
                 ELSE /\ reader' = [reader EXCEPT ![c].pc = "read", ![c].conn = wsConn]
                      /\ UNCHANGED <<recon, panic, updateChan, connected>>
    /\ UNCHANGED <<snapshot, snapshotReceived, snapDelivered, getSnap, retained,
                   lastSentSeq>>
    /\ UNCHANGED componentVars
    /\ UNCHANGED <<venue, ctxDone, done, wsConn, connState, reconnecting, lastPingSet,
                   lastSeq, engine, pinger, closer, venueSeq, lastEmitted, consumerEnded>>

\* conn.ReadMessage / ReadJSON returns an error
ReadError(c) ==
    /\ Alive
    /\ reader[c].pc = "read"
    /\ connState[reader[c].conn] \in {"broken", "closed"}
    /\ ReaderReturn(c, HasReconnect)
    /\ UNCHANGED <<snapshot, snapshotReceived, snapDelivered, getSnap, retained,
                   lastSentSeq>>
    /\ UNCHANGED componentVars
    /\ UNCHANGED <<venue, ctxDone, done, wsConn, connState, reconnecting, lastPingSet,
                   lastSeq, engine, pinger, closer, venueSeq, lastEmitted, consumerEnded>>

\* conn.ReadMessage / ReadJSON returns a frame.  On Kraken and Bybit the first
\* book frame of a connection is the snapshot, stored by storeSnapshot unless
\* e.snapshotReceived is set; Bybit also converts and emits it, Kraken does not.
ReadFrame(c) ==
    /\ Alive
    /\ reader[c].pc = "read"
    /\ connState[reader[c].conn] = "open"
    /\ \E kind \in FrameKinds :
         \/ /\ kind = "snapshot"
            /\ ~snapDelivered[reader[c].conn]
            /\ venueSeq < MaxFrames
            /\ venueSeq' = venueSeq + 1
            /\ snapDelivered' = [snapDelivered EXCEPT ![reader[c].conn] = TRUE]
            /\ snapshot' = (snapshot \/ ~snapshotReceived)
            /\ snapshotReceived' = TRUE
            /\ IF venue = "bybit"
                  THEN /\ reader' = [reader EXCEPT
                            ![c].pc = "send",
                            ![c].last = venueSeq + 1,
                            ![c].frame = [convertDepthUpdate(venueSeq + 1) EXCEPT
                               !.prev = IF snapshotReceived THEN lastSeq ELSE venueSeq + 1]]
                       /\ lastSeq' = venueSeq + 1
                  ELSE /\ reader' = [reader EXCEPT ![c].pc = "select"]
                       /\ UNCHANGED lastSeq
            /\ lastPingSet' = TRUE
         \/ /\ kind = "update"
            /\ InBandSnapshot => snapDelivered[reader[c].conn]
            /\ venueSeq < MaxFrames
            /\ venueSeq' = venueSeq + 1
            /\ reader' = [reader EXCEPT
                             ![c].pc = "send",
                             ![c].last = IF venue = "bybit" THEN venueSeq + 1 ELSE @,
                             ![c].frame = convertDepthUpdate(venueSeq + 1)]
            /\ lastSeq' = IF venue = "bybit" THEN venueSeq + 1 ELSE lastSeq
            /\ lastPingSet' = TRUE
            /\ UNCHANGED <<snapshot, snapshotReceived, snapDelivered>>
         \/ /\ kind = "control"
            /\ reader' = [reader EXCEPT ![c].pc = "select"]
            /\ lastPingSet' = IF venue = "bybit" THEN lastPingSet ELSE TRUE
            /\ UNCHANGED <<venueSeq, lastSeq, snapshot, snapshotReceived, snapDelivered>>
    /\ UNCHANGED <<getSnap, retained, lastSentSeq>>
    /\ UNCHANGED connected
    /\ UNCHANGED componentVars
    /\ UNCHANGED <<venue, ctxDone, done, wsConn, connState, updateChan, reconnecting,
                   engine, pinger, recon, closer, panic, lastEmitted, consumerEnded>>

\* conn.ReadMessage / ReadJSON returns a frame that does not decode.  Kraken
\* reads the raw message and, when no json.Unmarshal succeeds, continues with
\* the next frame.  Binance, Bybit and Hyperliquid decode inside ReadJSON, whose
\* error is handled as a read error: the loop returns (Hyperliquid after
\* `go e.reconnect()`).
DecodeErrorEndsLoop == venue # "kraken"

ReadMalformed(c) ==
    /\ Alive
    /\ reader[c].pc = "read"
    /\ connState[reader[c].conn] = "open"
    /\ IF DecodeErrorEndsLoop
          THEN ReaderReturn(c, HasReconnect)
          ELSE /\ reader' = [reader EXCEPT ![c].pc = "select"]
               /\ UNCHANGED <<recon, panic, updateChan, connected>>
    /\ UNCHANGED <<snapshot, snapshotReceived, snapDelivered, getSnap, retained,
                   lastSentSeq>>
    /\ UNCHANGED componentVars
    /\ UNCHANGED <<venue, ctxDone, done, wsConn, connState, reconnecting, lastPingSet,
                   lastSeq, engine, pinger, closer, venueSeq, lastEmitted, consumerEnded>>

\* the send case of the inner select is ready: a closed channel never blocks a send
SendReady == updateChan.closed \/ Len(updateChan.buf) < ChanCap

\* a select that has no default case
NoDefault == FALSE

\* the inner select has a `default:` case, taken when no other case is ready
HasDefault == TRUE

\* inner select: send / ctx.Done / done / default, one ready case chosen at random
ReadSend(c) ==
    /\ Alive
    /\ reader[c].pc = "send"
    /\ \/ /\ SendReady
          /\ IF updateChan.closed
                THEN /\ panic' = "send on closed channel"
                     /\ UNCHANGED <<updateChan, lastEmitted, lastSentSeq, reader>>
                ELSE /\ updateChan' = [updateChan EXCEPT !.buf = Append(@, reader[c].frame)]
                     /\ lastEmitted' = reader[c].frame.final
                     /\ lastSentSeq' = reader[c].frame.seq
                     /\ reader' = [reader EXCEPT ![c].pc = "select", ![c].frame = NoUpdate]
                     /\ UNCHANGED panic
          /\ UNCHANGED <<recon, connected>>
       \/ /\ ctxDone \/ done
          /\ ReaderReturn(c, FALSE)
          /\ UNCHANGED <<lastEmitted, lastSentSeq>>
       \/ /\ HasDefault
          /\ ~SendReady /\ ~ctxDone /\ ~done
          /\ reader' = [reader EXCEPT ![c].pc = "select", ![c].frame = NoUpdate]
          /\ UNCHANGED <<updateChan, lastEmitted, lastSentSeq, panic, recon, connected>>
    /\ UNCHANGED <<snapshot, snapshotReceived, snapDelivered, getSnap, retained>>
    /\ UNCHANGED componentVars
    /\ UNCHANGED <<venue, ctxDone, done, wsConn, connState, reconnecting, lastPingSet,
                   lastSeq, engine, pinger, closer, venueSeq, consumerEnded>>

\* the venue or the network drops the connection
TransportError(c) ==
    /\ Alive
    /\ connState[c] = "open"
    /\ connState' = [connState EXCEPT ![c] = "broken"]
    /\ UNCHANGED <<snapshot, snapshotReceived, snapDelivered, getSnap, retained,
                   lastSentSeq>>
    /\ UNCHANGED connected
    /\ UNCHANGED componentVars
    /\ UNCHANGED <<venue, ctxDone, done, wsConn, updateChan, reconnecting, lastPingSet,
                   lastSeq, engine, reader, pinger, recon, closer, panic, venueSeq,
                   lastEmitted, consumerEnded>>

\* the engine's ingest loop: `for update := range ex.Updates()`
ConsumerReceive ==
    /\ Alive
    /\ ~consumerEnded
    /\ IF updateChan.buf # <<>>
          THEN /\ updateChan' = [updateChan EXCEPT !.buf = Tail(@)]
               /\ retained' = (retained \/ getSnap.pc = "returned")
               /\ UNCHANGED consumerEnded
          ELSE /\ updateChan.closed
               /\ consumerEnded' = TRUE
               /\ UNCHANGED <<updateChan, retained>>
    /\ UNCHANGED <<snapshot, snapshotReceived, snapDelivered, getSnap, lastSentSeq>>
    /\ UNCHANGED connected
    /\ UNCHANGED componentVars
    /\ UNCHANGED <<venue, ctxDone, done, wsConn, connState, reconnecting, lastPingSet,
                   lastSeq, engine, reader, pinger, recon, closer, panic, venueSeq,
                   lastEmitted>>

\* ------------------------------------------------------------- GetSnapshot
\* the caller's part of the actions below leaves the connector's state alone
GetSnapshotFrame ==
    /\ UNCHANGED <<snapshot, snapshotReceived, snapDelivered, retained, lastSentSeq>>
    /\ UNCHANGED connected
    /\ UNCHANGED componentVars
    /\ UNCHANGED <<venue, ctxDone, done, wsConn, connState, updateChan, reconnecting,
                   lastPingSet, lastSeq, engine, reader, pinger, recon, closer, panic,
                   venueSeq, lastEmitted, consumerEnded>>

\* the engine asks for the initial snapshot once Connect has returned nil.
\* (Hyperliquid's GetSnapshot is a REST request like Binance's, whose answer
\* carries no id and meets no state of the connector: it is not followed here.)
GetSnapshotCall ==
    /\ Alive
    /\ getSnap.pc = "none"
    /\ engine.pc = "up"
    /\ venue # "hyperliquid"
    /\ getSnap' = [getSnap EXCEPT !.pc = IF InBandSnapshot THEN "poll" ELSE "rest"]
    /\ GetSnapshotFrame

\* Kraken, Bybit: the default branch of the select: snap := e.snapshot under
\* snapshotMu.  A nil snap leads back to the select after 100 ms of sleep, so
\* only the read that finds a snapshot moves the call on.
GetSnapshotRead ==
    /\ Alive
    /\ getSnap.pc = "poll"
    /\ snapshot
    /\ getSnap' = [getSnap EXCEPT !.pc = "test", !.local = snapshot]
    /\ GetSnapshotFrame

\* a GetSnapshot that returns e.snapshot, read again after the test of snap
GetSnapshotReread(local) == IF snapshot THEN 1 ELSE 0

\* the snapshot GetSnapshot hands out is the pointer it read under the mutex
\* (0: nil, 1: a snapshot)
GetSnapshotValue(local) == IF local THEN 1 ELSE 0

\* `if snap != nil { return snap, nil }`
GetSnapshotTest ==
    /\ Alive
    /\ getSnap.pc = "test"
    /\ getSnap.local
    /\ getSnap' = [getSnap EXCEPT !.pc = "returned",
                                  !.snap = GetSnapshotValue(getSnap.local)]
    /\ GetSnapshotFrame

\* Kraken, Bybit: the select finds the caller's context done, or the 10 s timer fired
GetSnapshotGiveUp ==
    /\ Alive
    /\ getSnap.pc = "poll"
    /\ \E why \in {"context", "timeout"} :
         getSnap' = [getSnap EXCEPT !.pc = "returned", !.snap = 0, !.err = why]
    /\ GetSnapshotFrame

\* the HTTP statuses the venue answers the depth request with: success, and
\* the 451 of a region the venue does not serve
HttpStatuses == {200, 451}

\* the bodies that can come with a status.  A success carries the book, whose
\* lastUpdateId is S; a refusal carries a JSON error object, which has none of
\* the book's fields; either can arrive cut short or not be JSON at all.
HttpBodies(status) ==
    IF status = 200
      THEN {[kind |-> "book", lastUpdateId |-> S] : S \in 1..MaxFrames}
             \cup {[kind |-> "undecodable", lastUpdateId |-> 0]}
      ELSE {[kind |-> "error object", lastUpdateId |-> 0],
            [kind |-> "undecodable", lastUpdateId |-> 0]}

\* json.NewDecoder(resp.Body).Decode(&binanceSnapshot): fields the body does
\* not have keep their zero value
DecodeSnapshot(body) ==
    [err |-> body.kind = "undecodable", lastUpdateId |-> body.lastUpdateId]

\* Binance: client.Do fails, or the venue answers; the answer's body is decoded
\* and converted whatever its status
GetSnapshotRest ==
    /\ Alive
    /\ getSnap.pc = "rest"
    /\ \/ getSnap' = [getSnap EXCEPT !.pc = "returned", !.err = "request"]
       \/ \E status \in HttpStatuses : \E body \in HttpBodies(status) :
            getSnap' = IF DecodeSnapshot(body).err
                         THEN [getSnap EXCEPT !.pc = "returned", !.err = "decode",
                                              !.status = status]
                         ELSE [getSnap EXCEPT !.pc = "returned",
                                              !.snap = DecodeSnapshot(body).lastUpdateId,
                                              !.status = status]
    /\ GetSnapshotFrame

\* ---------------------------------------------------------------- pingLoop
\* select picks ctx.Done / done
PingStop(c) ==
    /\ Alive
    /\ pinger[c] = "run"
    /\ ctxDone \/ done
    /\ pinger' = [pinger EXCEPT ![c] = "gone"]
    /\ UNCHANGED <<snapshot, snapshotReceived, snapDelivered, getSnap, retained,
                   lastSentSeq>>
    /\ UNCHANGED connected
    /\ UNCHANGED componentVars
    /\ UNCHANGED <<venue, ctxDone, done, wsConn, connState, updateChan, reconnecting,
                   lastPingSet, lastSeq, engine, reader, recon, closer, panic, venueSeq,
                   lastEmitted, consumerEnded>>

\* Hyperliquid pingLoop, on a tick: !health.LastPing.IsZero() and, when the
\* connection was silent for more than 60 s, time.Since(LastPing) > 60 s.
\* (Kraken's pingLoop never looks at LastPing; Binance and Bybit have no pingLoop.)
StaleCheck == venue = "hyperliquid" /\ lastPingSet

\* select picks ticker.C and the loop ends.  Kraken: e.wsConn is nil or the ping
\* write fails.  Hyperliquid: LastPing is set and older than 60 s, go e.reconnect().
\* (A tick that keeps the loop running changes nothing.)
PingTick(c) ==
    /\ Alive
    /\ pinger[c] = "run"
    /\ IF venue = "kraken"
          THEN /\ IF wsConn = 0 THEN TRUE ELSE connState[wsConn] \in {"broken", "closed"}
               /\ UNCHANGED recon
          ELSE /\ lastPingSet
               /\ recon' = [recon EXCEPT ![<<"p", c>>] = [NoReconnect EXCEPT !.pc = "cas"]]
    /\ pinger' = [pinger EXCEPT ![c] = "gone"]
    /\ UNCHANGED <<snapshot, snapshotReceived, snapDelivered, getSnap, retained,
                   lastSentSeq>>
    /\ UNCHANGED connected
    /\ UNCHANGED componentVars
    /\ UNCHANGED <<venue, ctxDone, done, wsConn, connState, updateChan, reconnecting,
                   lastPingSet, lastSeq, engine, reader, closer, panic, venueSeq,
                   lastEmitted, consumerEnded>>

\* --------------------------------------------------------------- reconnect
\* a gate that lets every caller through (the flag is set but never tested)
CompareAndSwapAlways == TRUE

\* e.reconnecting.CompareAndSwap(false, true) returns true
CompareAndSwapOk == reconnecting = FALSE

Min(a, b) == IF a < b THEN a ELSE b

\* the backoff computed in the loop iteration `attempt`, in seconds.
\* Kraken (after the failed Connect): attempt * 5 s, at most 30 s.
\* Hyperliquid (before Connect): nothing in attempt 1, then (attempt-1) * 5 s, at most 30 s.
backoff(attempt) ==
    IF venue = "hyperliquid"
      THEN IF attempt > 1 THEN Min((attempt - 1) * backoffBase, backoffCap) ELSE 0
      ELSE Min(attempt * backoffBase, backoffCap)

\* the gate, and behind it (under wsConnMu) the existing connection is closed and
\* e.wsConn set to nil; no other goroutine reads e.reconnecting in between
ReconGate(r) ==
    /\ Alive
    /\ recon[r].pc = "cas"
    /\ IF CompareAndSwapOk
          THEN /\ reconnecting' = TRUE
               /\ connState' = IF wsConn # 0 THEN [connState EXCEPT ![wsConn] = "closed"]
                                             ELSE connState
               /\ wsConn' = 0
               /\ recon' = [recon EXCEPT ![r].pc = "check", ![r].attempt = 1]
          ELSE /\ recon' = [recon EXCEPT ![r].pc = "skipped"]
               /\ UNCHANGED <<reconnecting, connState, wsConn>>
    /\ UNCHANGED <<snapshot, snapshotReceived, snapDelivered, getSnap, retained,
                   lastSentSeq>>
    /\ UNCHANGED connected
    /\ UNCHANGED componentVars
    /\ UNCHANGED <<venue, ctxDone, done, updateChan, lastPingSet, lastSeq, engine, reader,
                   pinger, closer, panic, venueSeq, lastEmitted, consumerEnded>>

\* head of the attempt loop: attempt <= maxAttempts, then select on ctx.Done / done;
\* every return runs the deferred e.reconnecting.Store(false)
ReconCheck(r) ==
    /\ Alive
    /\ recon[r].pc = "check"
    /\ IF recon[r].attempt > maxAttempts
          THEN /\ recon' = [recon EXCEPT ![r] = [NoReconnect EXCEPT !.pc = "gaveup"]]
               /\ reconnecting' = FALSE
          ELSE IF ctxDone \/ done
                 THEN /\ recon' = [recon EXCEPT ![r] = [NoReconnect EXCEPT !.pc = "returned"]]
                      /\ reconnecting' = FALSE
                 ELSE /\ recon' = IF venue = "hyperliquid"
                                    THEN [recon EXCEPT ![r].pc = "dial",
                                                       ![r].delay = backoff(recon[r].attempt),
                                                       ![r].delayOf = recon[r].attempt]
                                    ELSE [recon EXCEPT ![r].pc = "dial"]
                      /\ UNCHANGED reconnecting
    /\ UNCHANGED <<snapshot, snapshotReceived, snapDelivered, getSnap, retained,
                   lastSentSeq>>
    /\ UNCHANGED connected
    /\ UNCHANGED componentVars
    /\ UNCHANGED <<venue, ctxDone, done, wsConn, connState, updateChan, lastPingSet,
                   lastSeq, engine, reader, pinger, closer, panic, venueSeq, lastEmitted,
                   consumerEnded>>

\* e.Connect returned an error: Kraken sleeps backoff(attempt), Hyperliquid
\* continues; then attempt++
ConnectFailed(rec) ==
    IF venue = "hyperliquid"
      THEN [rec EXCEPT !.pc = "check", !.attempt = @ + 1, !.conn = 0]
      ELSE [rec EXCEPT !.pc = "check", !.attempt = @ + 1, !.conn = 0,
                       !.delay = backoff(rec.attempt), !.delayOf = rec.attempt]

\* e.Connect inside reconnect: the dial
ReconDial(r) ==
    /\ Alive
    /\ recon[r].pc = "dial"
    /\ \/ /\ recon' = [recon EXCEPT ![r] = ConnectFailed(recon[r])]
          /\ UNCHANGED <<wsConn, connState, connected>>
       \/ /\ NextConn <= MaxConns
          /\ ~(ReconDialUsesCtx /\ ctxDone)
          /\ DialOk(NextConn)
          /\ recon' = [recon EXCEPT ![r].pc = "sub", ![r].conn = NextConn]
    /\ UNCHANGED <<snapshot, snapshotReceived, snapDelivered, getSnap, retained,
                   lastSentSeq>>
    /\ UNCHANGED componentVars
    /\ UNCHANGED <<venue, ctxDone, done, updateChan, reconnecting, lastPingSet, lastSeq,
                   engine, reader, pinger, closer, panic, venueSeq, lastEmitted,
                   consumerEnded>>

\* e.Connect inside reconnect: the subscription write, then the workers start
ReconSubscribe(r) ==
    /\ Alive
    /\ recon[r].pc = "sub"
    /\ \/ /\ SubscribeCanSucceed(recon[r].conn)
          /\ StartWorkers(recon[r].conn)
          /\ recon' = [recon EXCEPT ![r] = [NoReconnect EXCEPT !.pc = "exit"]]
          /\ UNCHANGED connState
       \/ /\ SubscribeFail(recon[r].conn)
          /\ recon' = [recon EXCEPT ![r] = ConnectFailed(recon[r])]
          /\ UNCHANGED <<reader, pinger>>
    /\ UNCHANGED <<snapshot, snapshotReceived, snapDelivered, getSnap, retained,
                   lastSentSeq>>
    /\ UNCHANGED connected
    /\ UNCHANGED componentVars
    /\ UNCHANGED <<venue, ctxDone, done, wsConn, updateChan, reconnecting, lastPingSet,
                   lastSeq, engine, closer, panic, venueSeq, lastEmitted, consumerEnded>>

\* reconnect returns after a successful Connect: Kraken first resets
\* e.snapshotReceived and e.snapshot under snapshotMu; the deferred
\* e.reconnecting.Store(false) runs
ReconReturn(r) ==
    /\ Alive
    /\ recon[r].pc = "exit"
    /\ recon' = [recon EXCEPT ![r].pc = "returned"]
    /\ reconnecting' = FALSE
    /\ IF venue = "kraken"
          THEN snapshotReceived' = FALSE /\ snapshot' = FALSE
          ELSE UNCHANGED <<snapshotReceived, snapshot>>
    /\ UNCHANGED <<snapDelivered, getSnap, retained, lastSentSeq>>
    /\ UNCHANGED connected
    /\ UNCHANGED componentVars
    /\ UNCHANGED <<venue, ctxDone, done, wsConn, connState, updateChan, lastPingSet,
                   lastSeq, engine, reader, pinger, closer, panic, venueSeq, lastEmitted,
                   consumerEnded>>

\* ------------------------------------------------------------------- Close
\* Steps of Close() that touch no state another goroutine writes in between are
\* taken together: cancel() with the select on e.done, close(e.done) with the
\* test of e.wsConn.  The close frame, the one second of sleep and the
\* connection's Close() form the step "closeConn".

\* where Close() goes once the connection is dealt with (or found nil)
AfterConn == IF CloseClosesChan THEN "closeChan" ELSE "returned"

\* Kraken, Hyperliquid: `if e.wsConn != nil` after e.done is dealt with
\* (Hyperliquid: conn := e.wsConn under wsConnMu)
CloseTestConn(k) ==
    [pc |-> IF wsConn = 0 THEN AfterConn ELSE "closeConn",
     conn |-> IF CloseUsesLocalConn THEN wsConn ELSE 0]

\* Close() is entered by a caller that is not inside Connect: e.cancel(), then
\* Kraken, Hyperliquid: select on e.done (closed: go on to the connection);
\* Binance, Bybit: `if e.wsConn != nil`, and inside it the select on e.done
CloseCancel(k) ==
    /\ Alive
    /\ closer[k].pc = "none"
    /\ \A j \in CloseIds : j < k => closer[j].pc # "none"
    /\ engine.pc \notin {"dial", "sub"}
    /\ ctxDone' = TRUE
    /\ closer' = [closer EXCEPT ![k] =
         IF CloseDoneFirst
           THEN IF done THEN CloseTestConn(k) ELSE [pc |-> "closeDone", conn |-> 0]
           ELSE IF wsConn = 0 THEN [pc |-> "returned", conn |-> 0]
                ELSE [pc |-> IF done THEN "closeConn" ELSE "closeDone", conn |-> 0]]
    /\ UNCHANGED <<snapshot, snapshotReceived, snapDelivered, getSnap, retained,
                   lastSentSeq>>
    /\ UNCHANGED connected
    /\ UNCHANGED componentVars
    /\ UNCHANGED <<venue, done, wsConn, connState, updateChan, reconnecting, lastPingSet,
                   lastSeq, engine, reader, pinger, recon, panic, venueSeq, lastEmitted,
                   consumerEnded>>

\* close(e.done) in the default branch of the select; closing a closed channel panics
CloseDone(k) ==
    /\ Alive
    /\ closer[k].pc = "closeDone"
    /\ panic' = ClosePanic(done)
    /\ done' = TRUE
    /\ closer' = [closer EXCEPT ![k] =
         IF CloseDoneFirst THEN CloseTestConn(k) ELSE [pc |-> "closeConn", conn |-> 0]]
    /\ UNCHANGED <<snapshot, snapshotReceived, snapDelivered, getSnap, retained,
                   lastSentSeq>>
    /\ UNCHANGED connected
    /\ UNCHANGED componentVars
    /\ UNCHANGED <<venue, ctxDone, wsConn, connState, updateChan, reconnecting,
                   lastPingSet, lastSeq, engine, reader, pinger, recon, venueSeq,
                   lastEmitted, consumerEnded>>

\* close frame, one second of sleep, then e.wsConn.Close() (Hyperliquid: conn.Close());
\* e.wsConn is read again, and calling Close on a nil connection panics
CloseConn(k) ==
    /\ Alive
    /\ closer[k].pc = "closeConn"
    /\ LET target == IF CloseUsesLocalConn THEN closer[k].conn ELSE wsConn IN
         IF target = 0
           THEN /\ panic' = "nil pointer dereference"
                /\ UNCHANGED <<connState, closer, connected>>
           ELSE /\ connState' = [connState EXCEPT ![target] = "closed"]
                /\ connected' = FALSE
                /\ closer' = [closer EXCEPT ![k] = [pc |-> AfterConn, conn |-> 0]]
                /\ UNCHANGED panic
    /\ UNCHANGED <<snapshot, snapshotReceived, snapDelivered, getSnap, retained,
                   lastSentSeq>>
    /\ UNCHANGED componentVars
    /\ UNCHANGED <<venue, ctxDone, done, wsConn, updateChan, reconnecting, lastPingSet,
                   lastSeq, engine, reader, pinger, recon, venueSeq, lastEmitted,
                   consumerEnded>>

\* Kraken: close(e.updateChan) at the end of Close()
CloseChan(k) ==
    /\ Alive
    /\ closer[k].pc = "closeChan"
    /\ panic' = ClosePanic(updateChan.closed)
    /\ updateChan' = [updateChan EXCEPT !.closed = TRUE]
    /\ closer' = [closer EXCEPT ![k].pc = "returned"]
    /\ UNCHANGED <<snapshot, snapshotReceived, snapDelivered, getSnap, retained,
                   lastSentSeq>>
    /\ UNCHANGED connected
    /\ UNCHANGED componentVars
    /\ UNCHANGED <<venue, ctxDone, done, wsConn, connState, reconnecting, lastPingSet,
                   lastSeq, engine, reader, pinger, recon, venueSeq, lastEmitted,
                   consumerEnded>>

\* ------------------------------------------------------------ price levels
\* A decimal as the venue writes it: the whole part and the digits after the
\* point.  The values drawn here have fewer than 15 significant digits, a range in
\* which float64 and the %f verb reproduce the decimal digits asked for.
MaxWhole == 1
MaxFrac == 11
\* the precision of the verb in fmt.Sprintf("%.10f", ...)
fracDigits == 10

Zeros(n) == [i \in 1..n |-> 0]

Decimals ==
    {[whole |-> w, frac |-> f] :
        w \in 0..MaxWhole,
        f \in {<<>>} \cup {Zeros(k) \o <<d>> : k \in 0..(MaxFrac - 1), d \in {1, 9}}}

Levels == {[price |-> p, quantity |-> q] : p \in Decimals \ {[whole |-> 0, frac |-> <<>>]},
                                           q \in Decimals}

\* the digits after the point without trailing zeros
RECURSIVE StripZeros(_)
StripZeros(ds) ==
    IF ds # <<>> /\ ds[Len(ds)] = 0 THEN StripZeros(SubSeq(ds, 1, Len(ds) - 1)) ELSE ds

\* json.Unmarshal of a number into a float64 field: the value is kept, the
\* way it was written is not
ParseFloat(d) == [whole |-> d.whole, frac |-> StripZeros(d.frac)]

\* one unit added in the last place of a digit sequence
RECURSIVE Carry(_)
Carry(ds) ==
    IF ds = <<>>
      THEN [over |-> 1, digits |-> <<>>]
      ELSE IF ds[Len(ds)] < 9
             THEN [over |-> 0, digits |-> [ds EXCEPT ![Len(ds)] = @ + 1]]
             ELSE LET c == Carry(SubSeq(ds, 1, Len(ds) - 1))
                  IN  [over |-> c.over, digits |-> Append(c.digits, 0)]

\* fmt.Sprintf("%.10f", x): exactly ten digits after the point, rounded
Sprintf10f(x) ==
    IF Len(x.frac) <= fracDigits
      THEN [whole |-> x.whole, frac |-> x.frac \o Zeros(fracDigits - Len(x.frac))]
      ELSE LET kept == SubSeq(x.frac, 1, fracDigits)
               c == Carry(kept)
           IN  IF x.frac[fracDigits + 1] >= 5
                 THEN [whole |-> x.whole + c.over, frac |-> c.digits]
                 ELSE [whole |-> x.whole, frac |-> kept]

\* the type of the price and quantity fields of the venue's message struct
WireType == IF venue = "kraken" THEN "float64" ELSE "string"

\* one exchange.PriceLevel of storeSnapshot / convertSnapshot / convertDepthUpdate
PriceLevel(lvl) ==
    IF WireType = "float64"
      THEN [price |-> Sprintf10f(ParseFloat(lvl.price)),
            quantity |-> Sprintf10f(ParseFloat(lvl.quantity))]
      ELSE lvl

\* no level is on its way
NoLevel == [price |-> [whole |-> 0, frac |-> <<>>], quantity |-> [whole |-> 0, frac |-> <<>>]]

\* the venue's frame carries a level
VenueSendsLevel ==
    /\ wire.repr = "none"
    /\ \E lvl \in Levels : wire' = [sent |-> lvl, emitted |-> NoLevel, repr |-> "wire"]
    /\ UNCHANGED <<connectorVars, bookVars, viewVars, serverVars, switchVars, healthVars, hookVars>>

\* the connector decodes the frame and builds the level of the canonical
\* snapshot or update
ConvertLevel ==
    /\ wire.repr = "wire"
    /\ wire' = [wire EXCEPT !.emitted = PriceLevel(wire.sent), !.repr = WireType]
    /\ UNCHANGED <<connectorVars, bookVars, viewVars, serverVars, switchVars, healthVars, hookVars>>

\* two decimals denote the same number
SameDecimal(a, b) == a.whole = b.whole /\ StripZeros(a.frac) = StripZeros(b.frac)

\* -------------------------------------------------------------- order book
\* prices, sequence ids and the number of levels on one side of a message
MaxPrice == 2
MaxId == 2
MaxLevels == 2

Prices == 1..MaxPrice
Quantities == {-1, 0, 1}
\* ob.bestBid = decimal.Zero and ob.bestAsk = decimal.NewFromFloat(999999999)
\* on an empty side
noBestBid == 0
noBestAsk == 999999999

\* a side that holds no level
NoLevels == [p \in {} |-> 0]

\* orderbook.New()
NewBook == [bids |-> NoLevels, asks |-> NoLevels, bestBid |-> noBestBid,
            bestAsk |-> noBestAsk, lastUpdateID |-> 0]

\* the level lists of a message: bids by price descending, asks ascending
LevelLists == UNION {[1..n -> [price : Prices, qty : Quantities]] : n \in 0..MaxLevels}
BidLists == {l \in LevelLists : \A i \in 1..(Len(l) - 1) : l[i].price > l[i + 1].price}
AskLists == {l \in LevelLists : \A i \in 1..(Len(l) - 1) : l[i].price < l[i + 1].price}

\* a venue's full state of the book has every bid below every ask
Uncrossed(bids, asks) ==
    \A i \in 1..Len(bids), j \in 1..Len(asks) : bids[i].price < asks[j].price

\* exchange.Snapshot
Snapshots ==
    {[lastUpdateID |-> id, bids |-> b, asks |-> a] :
        id \in 0..MaxId, b \in BidLists, a \in AskLists}

\* exchange.DepthUpdate, as far as the book reads it
Updates ==
    {[final |-> id, isSnapshot |-> sn, bids |-> b, asks |-> a] :
        id \in 0..MaxId, sn \in BOOLEAN, b \in BidLists, a \in AskLists}

\* one level of a message meets one side: quantity zero removes the price, a
\* negative quantity is dropped, any other quantity is set or overwritten
SetLevelAny(side, lvl) ==
    IF lvl.qty = 0
      THEN [p \in DOMAIN side \ {lvl.price} |-> side[p]]
      ELSE [p \in DOMAIN side \cup {lvl.price} |->
              IF p = lvl.price THEN lvl.qty ELSE side[p]]

SetLevel(side, lvl) ==
    IF lvl.qty < 0 THEN side ELSE SetLevelAny(side, lvl)

\* "for each level on each side"
RECURSIVE ApplyLevels(_, _)
ApplyLevels(side, levels) ==
    IF levels = <<>> THEN side
                     ELSE ApplyLevels(SetLevel(side, Head(levels)), Tail(levels))

\* best_bid and best_ask recomputed from a side
BestBid(side) ==
    IF DOMAIN side = {} THEN noBestBid
                        ELSE CHOOSE p \in DOMAIN side : \A q \in DOMAIN side : q <= p
BestAsk(side) ==
    IF DOMAIN side = {} THEN noBestAsk
                        ELSE CHOOSE p \in DOMAIN side : \A q \in DOMAIN side : p <= q

\* a book that keeps its levels whatever the update says
KeepLevels(ob, update) == ob

\* the head of applyUpdate: `if update.IsSnapshot` the maps are made anew and
\* bestBid, bestAsk reset
ClearIfSnapshot(ob, update) ==
    IF update.isSnapshot
      THEN [ob EXCEPT !.bids = NoLevels, !.asks = NoLevels,
                      !.bestBid = noBestBid, !.bestAsk = noBestAsk]
      ELSE ob

\* last_applied_id after apply: a snapshot replace resets it to the update's
\* id; a delta that carries a nonzero id sets it
NextUpdateID(ob, update) ==
    IF update.isSnapshot \/ update.final # 0 THEN update.final ELSE ob.lastUpdateID

\* apply(update)
applyUpdate(ob, update) ==
    LET cleared == ClearIfSnapshot(ob, update)
        bids == ApplyLevels(cleared.bids, update.bids)
        asks == ApplyLevels(cleared.asks, update.asks)
    IN  [bids |-> bids, asks |-> asks, bestBid |-> BestBid(bids),
         bestAsk |-> BestAsk(asks), lastUpdateID |-> NextUpdateID(ob, update)]

\* load_snapshot(snapshot): what apply does with a snapshot update of these levels
LoadSnapshot(ob, snap) ==
    applyUpdate(ob, [final |-> snap.lastUpdateID, isSnapshot |-> TRUE,
                     bids |-> snap.bids, asks |-> snap.asks])

\* the book holds a level
HasLevels(ob) == DOMAIN ob.bids # {} \/ DOMAIN ob.asks # {}

\* the message lists a level whose quantity is zero or negative
NonPositive(msg) ==
    \/ \E i \in 1..Len(msg.bids) : msg.bids[i].qty <= 0
    \/ \E i \in 1..Len(msg.asks) : msg.asks[i].qty <= 0

\* ob.LoadSnapshot(snapshot) with the snapshot a connector's GetSnapshot returned
BookLoadSnapshot ==
    /\ \E snap \in Snapshots :
         /\ Uncrossed(snap.bids, snap.asks)
         /\ book' = LoadSnapshot(book, snap)
         /\ lastOp' = [op |-> "load", hadLevels |-> HasLevels(book),
                       nonPositive |-> NonPositive(snap)]
    /\ UNCHANGED <<connectorVars, decimalVars, viewVars, serverVars, switchVars, healthVars, hookVars>>

\* the ingest task applies an update taken from a connector's stream
BookApply ==
    /\ \E update \in Updates :
         /\ update.isSnapshot => Uncrossed(update.bids, update.asks)
         /\ book' = applyUpdate(book, update)
         /\ lastOp' = [op |-> IF update.isSnapshot THEN "replace" ELSE "delta",
                       hadLevels |-> HasLevels(book), nonPositive |-> NonPositive(update)]
    /\ UNCHANGED <<connectorVars, decimalVars, viewVars, serverVars, switchVars, healthVars, hookVars>>

\* -------------------------------------------------------- broadcast view
\* the deepest book followed and the coarsest tick
MaxBookDepth == 21
MaxTick == 2
\* maxDepth := 20 in the server's broadcast
maxDepth == 20

\* The book holds the bid prices 1..n and as many ask prices as it has asks
\* above them, one unit of quantity at each price.
BidPrices(d) == 1..d.bids
AskPrices(d) == {MaxBookDepth + i : i \in 1..d.asks}

\* aggregate_by_tick: bids floor to the lower tick boundary, asks ceil to the
\* upper; the quantities within a bucket sum
Floor(p, tick) == p - (p % tick)
Ceil(p, tick) == Floor(p + tick - 1, tick)
AggregatedBids(d, tick) ==
    {[price |-> b, quantity |-> Cardinality({p \in BidPrices(d) : Floor(p, tick) = b})] :
        b \in {Floor(p, tick) : p \in BidPrices(d)}}
AggregatedAsks(d, tick) ==
    {[price |-> b, quantity |-> Cardinality({p \in AskPrices(d) : Ceil(p, tick) = b})] :
        b \in {Ceil(p, tick) : p \in AskPrices(d)}}

\* sort.Slice(aggregatedBids, ... GreaterThan), sort.Slice(aggregatedAsks, ... LessThan)
RECURSIVE SortLevels(_, _)
SortLevels(levels, descending) ==
    IF levels = {}
      THEN <<>>
      ELSE LET first == CHOOSE l \in levels : \A m \in levels :
                           IF descending THEN m.price <= l.price ELSE l.price <= m.price
           IN  <<first>> \o SortLevels(levels \ {first}, descending)

\* a server that sends every level
WholeBook(levels) == levels

\* if len(aggregatedBids) > maxDepth { aggregatedBids = aggregatedBids[:maxDepth] }
LimitDepth(levels) ==
    IF Len(levels) > maxDepth THEN SubSeq(levels, 1, maxDepth) ELSE levels

\* the statistics record, as far as it counts quantity: the totals of each side
Stats(d) == [totalBidsQty |-> Cardinality(BidPrices(d)),
             totalAsksQty |-> Cardinality(AskPrices(d))]

\* nothing was broadcast yet
NoFrame == [type |-> "none", bids |-> <<>>, asks |-> <<>>,
            stats |-> [totalBidsQty |-> 0, totalAsksQty |-> 0],
            depth |-> [bids |-> 0, asks |-> 0]]

\* the depths followed: an empty side, one level, and the depths around maxDepth
Depths == {0, 1, maxDepth - 1} \cup (maxDepth..MaxBookDepth)

\* an ingest task's apply (a snapshot, or deltas) brings a side of the book to
\* another depth
ViewIngest ==
    /\ \E side \in {"bids", "asks"}, d \in Depths :
         /\ d # depth[side]
         /\ depth' = [depth EXCEPT ![side] = d]
    /\ UNCHANGED <<tickSize, frame>>
    /\ UNCHANGED <<connectorVars, decimalVars, bookVars, serverVars, switchVars, healthVars, hookVars>>

\* a client's set_tick message
SetTick ==
    /\ \E tick \in 1..MaxTick : tick # tickSize /\ tickSize' = tick
    /\ UNCHANGED <<depth, frame>>
    /\ UNCHANGED <<connectorVars, decimalVars, bookVars, serverVars, switchVars, healthVars, hookVars>>

\* the 200 ms timer fires: the view and the statistics of the book are
\* extracted and the two frames built
BroadcastView ==
    /\ frame' = [type |-> "orderbook",
                 bids |-> LimitDepth(SortLevels(AggregatedBids(depth, tickSize), TRUE)),
                 asks |-> LimitDepth(SortLevels(AggregatedAsks(depth, tickSize), FALSE)),
                 stats |-> Stats(depth),
                 depth |-> depth]
    /\ UNCHANGED <<depth, tickSize>>
    /\ UNCHANGED <<connectorVars, decimalVars, bookVars, serverVars, switchVars, healthVars, hookVars>>

\* -------------------------------------------------------- broadcast server
\* clients, the capacity of a client's send buffer, and timer ticks followed
MaxClients == 2
ClientCap == 1
MaxTicks == 3
\* the number of consecutive ticks a client's buffer may be found full
\* before the client is disconnected (configurable)
DisconnectAfter == 2

ClientIds == 1..MaxClients
NoClient == [connected |-> FALSE, send |-> <<>>, fullTicks |-> 0]

\* a server that enqueues whether or not there is room
OfferAlways(queue, f) == Append(queue, f)

\* the frame is put into the client's buffer if there is room, dropped if not
Offer(queue, f) == IF Len(queue) < ClientCap THEN Append(queue, f) ELSE queue

\* a client opens the push socket
ClientConnect(c) ==
    /\ ~clients[c].connected
    /\ clients' = [clients EXCEPT ![c] = [NoClient EXCEPT !.connected = TRUE]]
    /\ UNCHANGED <<bcast, bookLock>>
    /\ UNCHANGED <<connectorVars, decimalVars, bookVars, viewVars, switchVars, healthVars, hookVars>>

\* the client's writer takes the next frame from the buffer and sends it
ClientDrain(c) ==
    /\ clients[c].connected
    /\ clients[c].send # <<>>
    /\ clients' = [clients EXCEPT ![c].send = Tail(@)]
    /\ UNCHANGED <<bcast, bookLock>>
    /\ UNCHANGED <<connectorVars, decimalVars, bookVars, viewVars, switchVars, healthVars, hookVars>>

\* the timer fires: the sampling step takes the book's lock
BroadcastSample ==
    /\ bcast.pc = "idle"
    /\ bcast.tick < MaxTicks
    /\ bookLock = "free"
    /\ bookLock' = "broadcast"
    /\ bcast' = [bcast EXCEPT !.pc = "locked", !.tick = @ + 1]
    /\ UNCHANGED clients
    /\ UNCHANGED <<connectorVars, decimalVars, bookVars, viewVars, switchVars, healthVars, hookVars>>

\* the view is extracted and the lock released; serializing and enqueueing follow
BroadcastRelease ==
    /\ bcast.pc = "locked"
    /\ bookLock' = "free"
    /\ bcast' = [bcast EXCEPT !.pc = "enqueue", !.next = 1]
    /\ UNCHANGED clients
    /\ UNCHANGED <<connectorVars, decimalVars, bookVars, viewVars, switchVars, healthVars, hookVars>>

\* the client after this tick's frame was offered to its buffer
Offered(cl, f) ==
    IF ~cl.connected
      THEN cl
      ELSE IF Len(cl.send) < ClientCap
             THEN [cl EXCEPT !.send = Offer(cl.send, f), !.fullTicks = 0]
             ELSE IF cl.fullTicks + 1 >= DisconnectAfter
                    THEN NoClient
                    ELSE [cl EXCEPT !.send = Offer(cl.send, f), !.fullTicks = @ + 1]

\* fan-out: the frame of this tick is offered to the next client
BroadcastEnqueue ==
    /\ bcast.pc = "enqueue"
    /\ clients' = [clients EXCEPT ![bcast.next] = Offered(@, bcast.tick)]
    /\ bcast' = IF bcast.next = MaxClients
                  THEN [bcast EXCEPT !.pc = "idle", !.next = 0]
                  ELSE [bcast EXCEPT !.next = @ + 1]
    /\ UNCHANGED bookLock
    /\ UNCHANGED <<connectorVars, decimalVars, bookVars, viewVars, switchVars, healthVars, hookVars>>

\* an ingest task takes the book's lock for an apply
IngestLock ==
    /\ bookLock = "free"
    /\ bookLock' = "ingest"
    /\ UNCHANGED <<clients, bcast>>
    /\ UNCHANGED <<connectorVars, decimalVars, bookVars, viewVars, switchVars, healthVars, hookVars>>

\* the apply is done and the lock released
IngestUnlock ==
    /\ bookLock = "ingest"
    /\ bookLock' = "free"
    /\ UNCHANGED <<clients, bcast>>
    /\ UNCHANGED <<connectorVars, decimalVars, bookVars, viewVars, switchVars, healthVars, hookVars>>

\* ----------------------------------------------------------- symbol change
\* symbol changes followed
MaxSymbolChanges == 2

NoExchange == [pc |-> "none", symbol |-> 0, connector |-> "none"]

\* the engine builds the connectors for the symbol and launches one task per
\* venue (at start, and after a symbol change once it has slept)
LaunchExchanges ==
    /\ symbolEngine.pc \in {"idle", "sleep"}
    /\ symbolEngine' = [pc |-> "running", symbol |-> symbolEngine.symbol + 1, done |-> FALSE]
    /\ exchanges' = [v \in Venues |->
                       [pc |-> "run", symbol |-> symbolEngine.symbol + 1, connector |-> "open"]]
    /\ UNCHANGED orderbooksMap
    /\ UNCHANGED <<connectorVars, decimalVars, bookVars, viewVars, serverVars, healthVars, hookVars>>

\* a venue's task applies an update of its connector to the venue's book
ExchangeApply(v) ==
    /\ exchanges[v].pc \in {"run", "drain"}
    /\ orderbooksMap' = [orderbooksMap EXCEPT ![v] = exchanges[v].symbol]
    /\ UNCHANGED <<symbolEngine, exchanges>>
    /\ UNCHANGED <<connectorVars, decimalVars, bookVars, viewVars, serverVars, healthVars, hookVars>>

\* a venue's task sees the signal and closes its connector
ExchangeClose(v) ==
    /\ exchanges[v].pc = "run"
    /\ symbolEngine.done
    /\ exchanges' = [exchanges EXCEPT ![v].pc = "drain", ![v].connector = "closed"]
    /\ UNCHANGED <<symbolEngine, orderbooksMap>>
    /\ UNCHANGED <<connectorVars, decimalVars, bookVars, viewVars, serverVars, healthVars, hookVars>>

\* the task has drained the connector's stream and exits
ExchangeExit(v) ==
    /\ exchanges[v].pc = "drain"
    /\ exchanges' = [exchanges EXCEPT ![v].pc = "exited"]
    /\ UNCHANGED <<symbolEngine, orderbooksMap>>
    /\ UNCHANGED <<connectorVars, decimalVars, bookVars, viewVars, serverVars, healthVars, hookVars>>

\* case newSymbol := <-symbolChange: close(done)
SymbolChange ==
    /\ symbolEngine.pc = "running"
    /\ symbolEngine.symbol <= MaxSymbolChanges
    /\ symbolEngine' = [symbolEngine EXCEPT !.pc = "wait", !.done = TRUE]
    /\ UNCHANGED <<exchanges, orderbooksMap>>
    /\ UNCHANGED <<connectorVars, decimalVars, bookVars, viewVars, serverVars, healthVars, hookVars>>

\* an engine that does not wait for its tasks
NoWait == TRUE

\* exchangesDone can be received from: every venue's task has exited
AllExited == \A v \in Venues : exchanges[v].pc = "exited"

\* <-exchangesDone
ExchangesDone ==
    /\ symbolEngine.pc = "wait"
    /\ AllExited
    /\ symbolEngine' = [symbolEngine EXCEPT !.pc = "clear"]
    /\ UNCHANGED <<exchanges, orderbooksMap>>
    /\ UNCHANGED <<connectorVars, decimalVars, bookVars, viewVars, serverVars, healthVars, hookVars>>

\* for k := range orderbooksMap { delete(orderbooksMap, k) }, then the sleep begins
ClearBooks ==
    /\ symbolEngine.pc = "clear"
    /\ orderbooksMap' = [v \in Venues |-> 0]
    /\ symbolEngine' = [symbolEngine EXCEPT !.pc = "sleep"]
    /\ UNCHANGED exchanges
    /\ UNCHANGED <<connectorVars, decimalVars, bookVars, viewVars, serverVars, healthVars, hookVars>>

\* ------------------------------------------------------------------ health
\* calls of the health helpers followed in a run
MaxHealthCalls == 3

\* the tasks of a connector that store into e.health: the read loop, Connect
\* (run by the engine or by reconnect) and Close
HealthTasks == {"readMessages", "Connect", "Close"}

\* the helpers each of them calls
HealthCalls(t) ==
    CASE t = "readMessages" -> {"incrementMessageCount", "incrementErrorCount",
                                "updateLastPing", "updateConnectionStatus(false)"}
      [] t = "Connect" -> {"incrementErrorCount", "updateConnectionStatus(true)"}
      [] OTHER -> {"updateConnectionStatus(false)"}

\* the HealthStatus the constructor stores
NewHealth == [connected |-> FALSE, lastPing |-> FALSE, messageCount |-> 0, errorCount |-> 0]

NoHealthCall == [pc |-> "idle", call |-> "none", status |-> NewHealth]

\* the copy a helper modifies: status := e.Health(), taken when the helper began
LoadedStatus(t) == healthTask[t].status

\* the helper's change of its copy
Modified(status, call) ==
    CASE call = "incrementMessageCount" -> [status EXCEPT !.messageCount = @ + 1]
      [] call = "incrementErrorCount" -> [status EXCEPT !.errorCount = @ + 1]
      [] call = "updateLastPing" -> [status EXCEPT !.lastPing = TRUE]
      [] call = "updateConnectionStatus(true)" -> [status EXCEPT !.connected = TRUE]
      [] OTHER -> [status EXCEPT !.connected = FALSE]

\* a task enters a helper: status := e.Health()
HealthLoad(t) ==
    /\ healthTask[t].pc = "idle"
    /\ healthCalls.begun < MaxHealthCalls
    /\ \E call \in HealthCalls(t) :
         healthTask' = [healthTask EXCEPT ![t] = [pc |-> "loaded", call |-> call,
                                                  status |-> health]]
    /\ healthCalls' = [healthCalls EXCEPT !.begun = @ + 1]
    /\ UNCHANGED health
    /\ UNCHANGED <<connectorVars, decimalVars, bookVars, viewVars, serverVars, switchVars, hookVars>>

\* the helper changes its copy and returns: e.health.Store(status)
HealthStore(t) ==
    /\ healthTask[t].pc = "loaded"
    /\ health' = Modified(LoadedStatus(t), healthTask[t].call)
    /\ healthCalls' =
         CASE healthTask[t].call = "incrementMessageCount" ->
                [healthCalls EXCEPT !.messages = @ + 1]
           [] healthTask[t].call = "incrementErrorCount" ->
                [healthCalls EXCEPT !.errors = @ + 1]
           [] healthTask[t].call = "updateConnectionStatus(true)" ->
                [healthCalls EXCEPT !.status = TRUE]
           [] healthTask[t].call = "updateConnectionStatus(false)" ->
                [healthCalls EXCEPT !.status = FALSE]
           [] OTHER -> healthCalls
    /\ healthTask' = [healthTask EXCEPT ![t] = NoHealthCall]
    /\ UNCHANGED <<connectorVars, decimalVars, bookVars, viewVars, serverVars, switchVars, hookVars>>

\* ------------------------------------------------------------ useWebSocket
\* One instance of the browser hook useWebSocket: the effect's connect(), the
\* handlers of the sockets it creates, its timers, the visibilitychange
\* listener and the effect's cleanup.  The browser runs one callback at a
\* time; connect() is in two steps, before and after `await fetch(healthUrl)`.

\* sockets one hook instance creates in a run, and visibilitychange events
MaxSockets == 3
MaxVisible == 2

SocketIds == 1..MaxSockets

\* the hook once the effect has run: the listener is added and connect() was
\* called and awaits the health check
NewHook ==
    [sockets |-> [s \in SocketIds |-> "none"],   \* readyState, "none": not created
     wsRef |-> 0,                                \* wsRef.current (0: null)
     reconnectTimeoutRef |-> "undefined",        \* the timer it names: "scheduled", "spent"
     unnamedTimers |-> 0,                        \* scheduled setTimeout(connect, ...) no ref names
     connectionTimeoutRef |-> 0,                 \* the socket whose stall timer it names
     stallTimers |-> {},                         \* sockets with a scheduled stall timer
     awaiting |-> 1,                             \* calls of connect() awaiting the fetch
     reconnectAttempts |-> 0,
     isConnected |-> FALSE,
     cleanedUp |-> FALSE,
     visible |-> 0]

\* ws.close(): a socket that is connecting or open starts closing; its close
\* event comes later
Closing(sockets, s) ==
    IF s # 0 /\ sockets[s] \in {"connecting", "open"}
      THEN [sockets EXCEPT ![s] = "closing"]
      ELSE sockets

\* clearTimeout(reconnectTimeoutRef.current): the ref keeps the id
ClearReconnect(ref) == IF ref = "scheduled" THEN "spent" ELSE ref

\* sockets the hook has created
Created(h) == {s \in SocketIds : h.sockets[s] # "none"}

\* connect(), after the await: const ws = new WebSocket(url); wsRef.current = ws
connectNewWebSocket ==
    /\ hook.awaiting > 0
    /\ Cardinality(Created(hook)) < MaxSockets
    /\ LET ws == Cardinality(Created(hook)) + 1
       IN  hook' = [hook EXCEPT !.awaiting = @ - 1,
                                !.sockets[ws] = "connecting",
                                !.wsRef = ws]
    /\ UNCHANGED <<connectorVars, decimalVars, bookVars, viewVars, serverVars, switchVars,
                   healthVars>>

\* ws.onopen: setIsConnected(true) and the 30 s stall timer, whose callback
\* closes this socket
onopen(s) ==
    /\ hook.sockets[s] = "connecting"
    /\ hook' = [hook EXCEPT !.sockets[s] = "open",
                            !.isConnected = TRUE,
                            !.stallTimers = @ \cup {s},
                            !.connectionTimeoutRef = s]
    /\ UNCHANGED <<connectorVars, decimalVars, bookVars, viewVars, serverVars, switchVars,
                   healthVars>>

\* ws.onmessage: the stall timer the ref names is cleared, reconnectAttempts
\* reset (the frame itself goes to the page's state)
onmessage(s) ==
    /\ hook.sockets[s] = "open"
    /\ hook' = [hook EXCEPT !.stallTimers = @ \ {hook.connectionTimeoutRef},
                            !.connectionTimeoutRef = 0,
                            !.reconnectAttempts = 0]
    /\ UNCHANGED <<connectorVars, decimalVars, bookVars, viewVars, serverVars, switchVars,
                   healthVars>>

\* the stall timer of socket s fires: ws.close()
stallTimeout(s) ==
    /\ s \in hook.stallTimers
    /\ hook' = [hook EXCEPT !.stallTimers = @ \ {s},
                            !.sockets = Closing(@, s)]
    /\ UNCHANGED <<connectorVars, decimalVars, bookVars, viewVars, serverVars, switchVars,
                   healthVars>>

\* the close event of socket s (after ws.close(), or the server or the network
\* ended the connection).  ws.onclose: setIsConnected(false), reconnectAttempts++,
\* reconnectTimeoutRef.current = setTimeout(connect, delay); a timer the ref
\* named before stays scheduled
onclose(s) ==
    /\ hook.sockets[s] \in {"connecting", "open", "closing"}
    /\ hook' = [hook EXCEPT !.sockets[s] = "closed",
                            !.isConnected = FALSE,
                            !.reconnectAttempts = @ + 1,
                            !.unnamedTimers =
                                IF hook.reconnectTimeoutRef = "scheduled" THEN @ + 1 ELSE @,
                            !.reconnectTimeoutRef = "scheduled"]
    /\ UNCHANGED <<connectorVars, decimalVars, bookVars, viewVars, serverVars, switchVars,
                   healthVars>>

\* a scheduled setTimeout(connect, ...) fires: connect() runs up to its await
connectTimeout ==
    /\ \/ /\ hook.reconnectTimeoutRef = "scheduled"
          /\ hook' = [hook EXCEPT !.reconnectTimeoutRef = "spent", !.awaiting = @ + 1]
       \/ /\ hook.unnamedTimers > 0
          /\ hook' = [hook EXCEPT !.unnamedTimers = @ - 1, !.awaiting = @ + 1]
    /\ UNCHANGED <<connectorVars, decimalVars, bookVars, viewVars, serverVars, switchVars,
                   healthVars>>

\* handleVisibilityChange with document.visibilityState === 'visible': the
\* pending reconnect timer is cleared, wsRef.current closed, and
\* setTimeout(connect, 100) scheduled
handleVisibilityChange ==
    /\ ~hook.cleanedUp
    /\ hook.visible < MaxVisible
    /\ hook' = [hook EXCEPT !.visible = @ + 1,
                            !.reconnectTimeoutRef = ClearReconnect(@),
                            !.sockets = Closing(@, hook.wsRef),
                            !.unnamedTimers = @ + 1]
    /\ UNCHANGED <<connectorVars, decimalVars, bookVars, viewVars, serverVars, switchVars,
                   healthVars>>

\* the effect's cleanup (unmount, or the url changed): the listener is
\* removed, the two timers the refs name are cleared, wsRef.current closed
cleanup ==
    /\ ~hook.cleanedUp
    /\ hook' = [hook EXCEPT !.cleanedUp = TRUE,
                            !.reconnectTimeoutRef = ClearReconnect(@),
                            !.stallTimers = @ \ {hook.connectionTimeoutRef},
                            !.sockets = Closing(@, hook.wsRef)]
    /\ UNCHANGED <<connectorVars, decimalVars, bookVars, viewVars, serverVars, switchVars,
                   healthVars>>

\* ------------------------------------------------------------ specification
\* the components around the connector before they have done anything
ComponentInit ==
    /\ wire = [sent |-> NoLevel, emitted |-> NoLevel, repr |-> "none"]
    /\ book = NewBook
    /\ lastOp = [op |-> "none", hadLevels |-> FALSE, nonPositive |-> FALSE]
    /\ depth = [bids |-> 0, asks |-> 0]
    /\ tickSize = 1
    /\ frame = NoFrame
    /\ clients = [c \in ClientIds |-> NoClient]
    /\ bcast = [pc |-> "idle", tick |-> 0, next |-> 0]
    /\ bookLock = "free"
    /\ symbolEngine = [pc |-> "idle", symbol |-> 0, done |-> FALSE]
    /\ exchanges = [v \in Venues |-> NoExchange]
    /\ orderbooksMap = [v \in Venues |-> 0]
    /\ health = NewHealth
    /\ healthTask = [t \in HealthTasks |-> NoHealthCall]
    /\ healthCalls = [begun |-> 0, messages |-> 0, errors |-> 0, status |-> FALSE]
    /\ hook = NewHook

Init == ConnectorInit /\ ComponentInit

Next ==
    \/ EngineConnect
    \/ EngineDial
    \/ EngineSubscribe
    \/ \E c \in ConnIds : ReadSelect(c)
    \/ \E c \in ConnIds : ReadError(c)
    \/ \E c \in ConnIds : ReadFrame(c)
    \/ \E c \in ConnIds : ReadMalformed(c)
    \/ \E c \in ConnIds : ReadSend(c)
    \/ \E c \in ConnIds : TransportError(c)
    \/ ConsumerReceive
    \/ GetSnapshotCall
    \/ GetSnapshotRead
    \/ GetSnapshotTest
    \/ GetSnapshotGiveUp
    \/ GetSnapshotRest
    \/ \E c \in ConnIds : PingStop(c)
    \/ \E c \in ConnIds : PingTick(c)
    \/ \E r \in ReconIds : ReconGate(r)
    \/ \E r \in ReconIds : ReconCheck(r)
    \/ \E r \in ReconIds : ReconDial(r)
    \/ \E r \in ReconIds : ReconSubscribe(r)
    \/ \E r \in ReconIds : ReconReturn(r)
    \/ \E k \in CloseIds : CloseCancel(k)
    \/ \E k \in CloseIds : CloseDone(k)
    \/ \E k \in CloseIds : CloseConn(k)
    \/ \E k \in CloseIds : CloseChan(k)

Spec == Init /\ [][Next]_vars

\* a connector on which Close() is not called and whose engine may call
\* Connect a second time
NextConnectAgain ==
    \/ EngineConnect
    \/ EngineConnectAgain
    \/ EngineDial
    \/ EngineSubscribe
    \/ \E c \in ConnIds : ReadSelect(c)
    \/ \E c \in ConnIds : ReadError(c)
    \/ \E c \in ConnIds : ReadFrame(c)
    \/ \E c \in ConnIds : ReadMalformed(c)
    \/ \E c \in ConnIds : ReadSend(c)
    \/ \E c \in ConnIds : TransportError(c)
    \/ ConsumerReceive
    \/ \E c \in ConnIds : PingTick(c)
    \/ \E r \in ReconIds : ReconGate(r)
    \/ \E r \in ReconIds : ReconCheck(r)
    \/ \E r \in ReconIds : ReconDial(r)
    \/ \E r \in ReconIds : ReconSubscribe(r)
    \/ \E r \in ReconIds : ReconReturn(r)

SpecConnectAgain == Init /\ [][NextConnectAgain]_vars

\* the price levels a connector converts
NextDecimal == VenueSendsLevel \/ ConvertLevel

SpecDecimal == Init /\ [][NextDecimal]_vars

\* the engine's side taken alone: the components around one connector that
\* has not been started (none of their operations reads the venue)
InitEngine == Init /\ venue = "binance"

\* one order book and the operations the engine carries out on it

NextBook == BookLoadSnapshot \/ BookApply

SpecBook == InitEngine /\ [][NextBook]_vars

\* the view of one full-depth book that the server broadcasts
NextView == ViewIngest \/ SetTick \/ BroadcastView

SpecView == InitEngine /\ [][NextView]_vars

\* the broadcast server, its clients and an ingest task of the engine
NextBroadcast ==
    \/ \E c \in ClientIds : ClientConnect(c)
    \/ \E c \in ClientIds : ClientDrain(c)
    \/ BroadcastSample
    \/ BroadcastRelease
    \/ BroadcastEnqueue
    \/ IngestLock
    \/ IngestUnlock

SpecBroadcast == InitEngine /\ [][NextBroadcast]_vars

\* the engine's loop over symbol changes and its per-venue tasks
NextSymbolChange ==
    \/ LaunchExchanges
    \/ \E v \in Venues : ExchangeApply(v)
    \/ \E v \in Venues : ExchangeClose(v)
    \/ \E v \in Venues : ExchangeExit(v)
    \/ SymbolChange
    \/ ExchangesDone
    \/ ClearBooks

SpecSymbolChange == InitEngine /\ [][NextSymbolChange]_vars

\* the health record of one connector and the tasks that store into it
NextHealth ==
    \/ \E t \in HealthTasks : HealthLoad(t)
    \/ \E t \in HealthTasks : HealthStore(t)

SpecHealth == InitEngine /\ [][NextHealth]_vars

\* the page's hook: its sockets, its timers and the events of the tab
NextHook ==
    \/ connectNewWebSocket
    \/ \E s \in SocketIds : onopen(s)
    \/ \E s \in SocketIds : onmessage(s)
    \/ \E s \in SocketIds : stallTimeout(s)
    \/ \E s \in SocketIds : onclose(s)
    \/ connectTimeout
    \/ handleVisibilityChange
    \/ cleanup

SpecHook == InitEngine /\ [][NextHook]_vars

TypeOK ==
    /\ venue \in Venues
    /\ wsConn \in 0..MaxConns
    /\ Len(updateChan.buf) <= ChanCap
    /\ venueSeq \in 0..MaxFrames
    /\ lastSentSeq \in 0..MaxFrames
    /\ getSnap.snap \in 0..MaxFrames
    /\ engine.calls \in 0..MaxConnectCalls
    /\ \A r \in ReconIds : recon[r].delay \in 0..backoffCap

\* ------------------------------------------------------------------ writes
\* The connection a task is about to write a frame to (0: none).  Only the
\* ping write of Kraken's pingLoop is made under e.wsConnMu.

\* Connect: conn.WriteJSON(subscribe) on the connection it dialled
SubscribeTarget(rec) == IF rec.pc = "sub" THEN rec.conn ELSE 0

\* Close: WriteMessage(CloseMessage) on e.wsConn (Hyperliquid: on its local conn)
CloseFrameTarget(k) ==
    IF closer[k].pc = "closeConn"
      THEN IF CloseUsesLocalConn THEN closer[k].conn ELSE wsConn
      ELSE 0

\* Kraken pingLoop, when its select takes ticker.C: conn := e.wsConn, conn.WriteJSON(ping)
PingTarget(c) == IF venue = "kraken" /\ pinger[c] = "run" THEN wsConn ELSE 0

\* the writes that can start in this state: <<task, connection, under wsConnMu>>
PendingWrites ==
    {w \in    {<<<<"connect", 0>>, SubscribeTarget(engine), FALSE>>}
         \cup {<<r, SubscribeTarget(recon[r]), FALSE>> : r \in ReconIds}
         \cup {<<<<"close", k>>, CloseFrameTarget(k), FALSE>> : k \in CloseIds}
         \cup {<<<<"ping", c>>, PingTarget(c), TRUE>> : c \in ConnIds} : w[2] # 0}

\* ------------------------------------------------------------- vocabulary
\* a reconnect routine that passed the compare-and-swap gate and has not returned
PastGate(r) == recon[r].pc \in {"check", "dial", "sub", "exit"}
\* some call of Close() has returned
CloseReturned == \E k \in CloseIds : closer[k].pc = "returned"
\* every call of Close() that was made has returned, and at least one was made
AllCloseReturned ==
    /\ CloseReturned
    /\ \A k \in CloseIds : closer[k].pc \in {"none", "returned"}
\* no goroutine of the connector is running and no Connect is in progress
TasksFinished ==
    /\ engine.pc \notin {"dial", "sub"}
    /\ \A c \in ConnIds : reader[c].pc \in {"none", "gone"} /\ pinger[c] \in {"none", "gone"}
    /\ \A r \in ReconIds : recon[r].pc \in {"none", "skipped", "gaveup", "returned"}
\* venues whose updates carry sequence ids taken from the venue's frames
SeqVenues == {"binance", "bybit"}
\* Close() was never called
CloseNotCalled == \A k \in CloseIds : closer[k].pc = "none"
\* the connector is in Streaming: a read loop is reading from the installed connection
Streaming ==
    /\ wsConn # 0
    /\ \E c \in ConnIds : reader[c].pc \in {"read", "send"} /\ reader[c].conn = wsConn
    /\ \A r \in ReconIds : ~PastGate(r)

\* ------------------------------------------------------------------ claims

\* C1: the update stream is closed by no read-loop exit and by no reconnect;
\* the only step that closes it is the close(e.updateChan) of Close().
C1_OnlyCloseClosesStream ==
    [][ (~updateChan.closed /\ updateChan'.closed)
          => \E k \in CloseIds : closer[k].pc = "closeChan" /\ closer'[k].pc = "returned" ]_vars

\* C2: no goroutine of the connector ever sends on the update stream after it
\* was closed.
C2_NoSendOnClosedStream == panic # "send on closed channel"

\* C3: when a read loop ends on a transport read error and Close() has not been
\* called, a reconnect routine is started and the update stream stays open.
C3_ReadErrorRecovered ==
    [][ \A c \in ConnIds :
          (reader[c].pc = "read" /\ reader'[c].pc = "gone" /\ ~ctxDone)
            => (recon'[<<"r", c>>].pc = "cas" /\ ~updateChan'.closed) ]_vars

\* C4: at most one reconnect routine is past the compare-and-swap gate at any
\* time, and a reconnect() call that runs the gate while another routine is past
\* it returns without touching the connection.
C4_OneReconnectInFlight ==
    /\ [](Cardinality({r \in ReconIds : PastGate(r)}) <= 1)
    /\ [][ \A r \in ReconIds :
             (recon[r].pc = "cas" /\ recon'[r].pc # "cas"
                /\ \E q \in ReconIds : PastGate(q))
               => (recon'[r].pc = "skipped" /\ wsConn' = wsConn /\ connState' = connState) ]_vars

\* a reconnect() call was turned away at the gate while another routine is in flight
C4_Witness ==
    \E r, q \in ReconIds : recon[r].pc = "skipped" /\ PastGate(q)

\* C5: once the shutdown signal is set, no read loop and no heartbeat loop is
\* started.
C5_NoWorkerAfterShutdown ==
    [][ done => \A c \in ConnIds :
                  /\ reader[c].pc = "none" => reader'[c].pc = "none"
                  /\ pinger[c] = "none" => pinger'[c] = "none" ]_vars

\* C6: no call of Close(), first or second, sequential or concurrent, closes
\* the done signal or the update stream a second time.
C6_CloseIdempotent ==
    [][ \A k \in CloseIds :
          (closer[k].pc \in {"closeDone", "closeChan"} /\ closer'[k].pc # closer[k].pc)
            => panic' # "close of closed channel" ]_vars

\* C7: once Close() has returned and every task of the connector has finished,
\* the update stream is closed (so a consumer ranging over it terminates).
C7_StreamClosedAfterClose ==
    (Alive /\ AllCloseReturned /\ TasksFinished) => updateChan.closed

\* C8: after Close() has returned no further update is put on the stream.
C8_NoEmissionAfterClose ==
    [][ CloseReturned => Len(updateChan'.buf) <= Len(updateChan.buf) ]_vars

\* C9: once Close() has returned and every task of the connector has finished,
\* no connection the connector opened is still open.
C9_TransportReleased ==
    (Alive /\ AllCloseReturned /\ TasksFinished)
      => \A c \in ConnIds : connState[c] \in {"none", "closed"}

\* C10: on venues with sequence ids every update put on the stream has prev_id
\* equal to the final_id of the update put on the stream before it.
C10_NoSequenceGap ==
    [][ (venue \in SeqVenues /\ lastEmitted # 0
           /\ Len(updateChan'.buf) > Len(updateChan.buf))
          => updateChan'.buf[Len(updateChan'.buf)].prev = lastEmitted ]_vars

\* C11: in Streaming with Close() not called, a heartbeat loop is running whose
\* next tick, once no liveness signal arrived for 60 s, starts reconnect (also
\* when no frame ever arrived and when pings go unanswered).
C11_SilenceTriggersReconnect ==
    (Alive /\ Streaming /\ CloseNotCalled)
      => \E c \in ConnIds : pinger[c] = "run" /\ StaleCheck

\* C12: on Hyperliquid, whose every frame carries the complete book, every update
\* on the stream has is_snapshot = true.
C12_HyperliquidUpdatesAreSnapshots ==
    venue = "hyperliquid"
      => \A i \in 1..Len(updateChan.buf) : updateChan.buf[i].isSnapshot

\* C16: the backoff computed in reconnect attempt k is min(k x 5 s, 30 s), and
\* a reconnect routine that passes the gate starts counting at attempt 1.
C16_BackoffDelays ==
    /\ [](\A r \in ReconIds :
            recon[r].delayOf # 0 => recon[r].delay = Min(recon[r].delayOf * 5, 30))
    /\ [][ \A r \in ReconIds :
             (recon[r].pc = "cas" /\ recon'[r].pc = "check") => recon'[r].attempt = 1 ]_vars

\* C18: at every moment at most one read loop and at most one heartbeat loop of
\* the connector is live.
C18_OneReadLoopOneHeartbeat ==
    /\ Cardinality({c \in ConnIds : reader[c].pc \in {"select", "read", "send"}}) <= 1
    /\ Cardinality({c \in ConnIds : pinger[c] = "run"}) <= 1

\* C13: on Binance, once the snapshot with id S is obtained, no update with
\* final_id <= S comes out of the stream, and the first update that does has
\* first_id <= S+1 <= final_id (a frame carries one id here: final_id = S+1).
C13_SyncAgainstSnapshot ==
    [][ (venue = "binance" /\ getSnap.pc = "returned" /\ getSnap.snap # 0
           /\ Len(updateChan'.buf) < Len(updateChan.buf))
          => /\ Head(updateChan.buf).final > getSnap.snap
             /\ ~retained => Head(updateChan.buf).final = getSnap.snap + 1 ]_vars

\* C14: the updates enter the stream in the order in which their frames came
\* from the transport, none twice: each one's frame number is greater than
\* that of the update sent before it.
C14_StreamOrderPreserved ==
    [][ Len(updateChan'.buf) > Len(updateChan.buf)
          => updateChan'.buf[Len(updateChan'.buf)].seq > lastSentSeq ]_vars

\* C19: on Kraken and Bybit GetSnapshot returns either a snapshot or an error,
\* never neither, and a snapshot only when the read loop has stored one.
C19_GetSnapshotResult ==
    InBandSnapshot =>
      /\ getSnap.pc = "returned" => ((getSnap.snap # 0) # (getSnap.err # "nil"))
      /\ (getSnap.pc = "returned" /\ getSnap.snap # 0)
           => (getSnap.local /\ \E c \in ConnIds : snapDelivered[c])

\* GetSnapshot of Kraken or Bybit has returned the snapshot the read loop stored
C19_Witness ==
    InBandSnapshot /\ getSnap.pc = "returned" /\ getSnap.snap # 0 /\ getSnap.err = "nil"

\* C20: Kraken: once the reconnect routine has returned and the snapshot frame
\* of the installed connection has been read, e.snapshot holds a snapshot.
C20_SnapshotSurvivesReconnect ==
    (venue = "kraken" /\ wsConn # 0 /\ \A r \in ReconIds : ~PastGate(r))
      => (snapDelivered[wsConn] => snapshot)

\* C15: a Connect called on a connector that is already connected opens no
\* transport and starts no read loop and no heartbeat loop; the connector is
\* left as the first call left it.
C15_ConnectIdempotent ==
    [][ (engine.again /\ engine.pc \in {"dial", "sub"} /\ engine' # engine)
          => /\ wsConn' = wsConn
             /\ connState' = connState
             /\ reader' = reader
             /\ pinger' = pinger ]_vars

\* C17: no two tasks can be writing to the same connection at once: two writes
\* to one connection that can both start are both made under e.wsConnMu.
C17_WritesMutuallyExclusive ==
    \A v, w \in PendingWrites : (v[1] # w[1] /\ v[2] = w[2]) => (v[3] /\ w[3])

\* C21: on every connector a frame read from the open connection, malformed or
\* not, leaves the connector streaming on that connection: the read loop does
\* not end, no reconnect is started and the update stream is not closed.
C21_MalformedFrameDropped ==
    [][ \A c \in ConnIds :
          (reader[c].pc = "read" /\ connState[reader[c].conn] = "open"
             /\ reader'[c] # reader[c])
            => /\ reader'[c].pc # "gone"
               /\ recon'[<<"r", c>>] = recon[<<"r", c>>]
               /\ updateChan'.closed = updateChan.closed ]_vars

\* a reconnect trigger can still be answered: Close() was not called and no
\* reconnect routine has used up its attempts
TriggerExpected ==
    /\ HasReconnect
    /\ Alive
    /\ CloseNotCalled
    /\ \E c \in ConnIds : reader[c].pc # "none"
    /\ \A r \in ReconIds : recon[r].pc # "gaveup"

\* C30: on Kraken and Hyperliquid a reconnect trigger is never lost: while
\* Close() has not been called and the attempts are not used up, a read loop
\* is running or a reconnect routine is in flight (started, or past the gate).
C30_ReconnectTriggerNotLost ==
    TriggerExpected
      => \/ \E c \in ConnIds : reader[c].pc \in {"select", "read", "send"}
         \/ \E r \in ReconIds : recon[r].pc = "cas" \/ PastGate(r)

\* C22: whenever both sides of a book hold a level, best_bid < best_ask, after
\* every load_snapshot and every apply (also after a delta that sets a bid at
\* or above the best ask, or an ask at or below the best bid).
C22_BookNotCrossed ==
    (DOMAIN book.bids # {} /\ DOMAIN book.asks # {}) => book.bestBid < book.bestAsk

C24_SnapshotReplaces ==
    \A update \in Updates :
      update.isSnapshot =>
        /\ applyUpdate(book, update) = applyUpdate(NewBook, update)
        /\ applyUpdate(applyUpdate(book, update), update) = applyUpdate(book, update)

\* a snapshot update was applied to a book that held levels
C24_Witness ==
    lastOp.op = "replace" /\ lastOp.hadLevels /\ HasLevels(book)

\* C25: last_applied_id never decreases across an apply of a delta, whatever
\* final_id the delta carries.
C25_LastAppliedIdMonotonic ==
    [][ lastOp'.op = "delta" => book'.lastUpdateID >= book.lastUpdateID ]_vars

\* C29: no connector holds a price or quantity as a binary floating-point
\* number, and the decimals of every emitted level are the decimals the venue
\* sent.
C29_ExactDecimals ==
    wire.repr \notin {"none", "wire"}
      => /\ wire.repr = "string"
         /\ SameDecimal(wire.emitted.price, wire.sent.price)
         /\ SameDecimal(wire.emitted.quantity, wire.sent.quantity)

\* C28: every outbound orderbook frame carries at most 20 bid levels and at
\* most 20 ask levels, whatever the depth of the book and the tick, while the
\* statistics sent with it count the whole book.
C28_FrameDepthLimited ==
    frame.type # "none"
      => /\ Len(frame.bids) <= 20
         /\ Len(frame.asks) <= 20
         /\ frame.stats.totalBidsQty = frame.depth.bids
         /\ frame.stats.totalAsksQty = frame.depth.asks

\* a frame was built from a book deeper than 20 levels on both sides
C28_Witness ==
    /\ frame.type = "orderbook"
    /\ frame.depth.bids > 20 /\ frame.depth.asks > 20
    /\ Len(frame.bids) = 20 /\ Len(frame.asks) = 20
    /\ frame.stats.totalBidsQty > 20

\* C26: when a client's send buffer is full at a tick, the frame of that tick
\* is dropped for that client only: the broadcast task goes on without
\* blocking, a client with room gets the frame, and the ingest task is not
\* held up (the book's lock is not held while frames are enqueued).
C26_SlowClientDropsOnly ==
    /\ [](bcast.pc = "enqueue"
            => /\ ENABLED BroadcastEnqueue
               /\ bookLock # "broadcast"
               /\ ENABLED (IngestLock \/ IngestUnlock))
    /\ [][ (bcast.pc = "enqueue" /\ bcast' # bcast)
             => /\ \A c \in ClientIds : c # bcast.next => clients'[c] = clients[c]
                /\ LET cl == clients[bcast.next]
                   IN  /\ (cl.connected /\ Len(cl.send) < ClientCap)
                            => clients'[bcast.next].send = Append(cl.send, bcast.tick)
                       /\ (cl.connected /\ Len(cl.send) = ClientCap)
                            => clients'[bcast.next].send \in {cl.send, <<>>} ]_vars

\* in one tick the frame was dropped for the first client, whose buffer was
\* full, and has reached the second
C26_Witness ==
    /\ bcast.pc = "idle"
    /\ clients[1].connected /\ clients[1].fullTicks > 0
    /\ Len(clients[1].send) = ClientCap /\ clients[1].send[1] # bcast.tick
    /\ clients[2].connected /\ clients[2].send = <<bcast.tick>>

\* C27: on a symbol change the connectors are first signalled to close, then
\* every venue's task has exited, then the books are cleared, and only then
\* are the new connectors built; no update of an old symbol's connector is
\* applied to a book after the clear.
C27_SymbolChangeOrdered ==
    /\ [](\A v \in Venues : orderbooksMap[v] \in {0, symbolEngine.symbol})
    /\ [][ /\ \A v \in Venues :
                (exchanges[v].pc = "run" /\ exchanges'[v].pc # "run") => symbolEngine.done
           /\ (symbolEngine.pc = "clear" /\ symbolEngine'.pc # "clear")
                => \A v \in Venues : /\ exchanges[v].pc = "exited"
                                     /\ exchanges[v].connector = "closed"
                                     /\ orderbooksMap'[v] = 0
           /\ (\E v \in Venues : exchanges'[v].symbol # exchanges[v].symbol)
                => \A v \in Venues : /\ orderbooksMap[v] = 0
                                     /\ exchanges[v].pc \in {"none", "exited"} ]_vars

\* after a symbol change the new symbol's tasks run and have filled a book
C27_Witness ==
    /\ symbolEngine.symbol = 2 /\ symbolEngine.pc = "running"
    /\ \E v \in Venues : orderbooksMap[v] = 2

\* C31: the update stream is closed at most once: no read-loop exit and no
\* Close() executes close(e.updateChan) on a stream that is already closed.
C31_StreamClosedOnce ==
    [][ (\/ \E c \in ConnIds : /\ ReadLoopClosesChan
                               /\ reader[c].pc # "gone" /\ reader'[c].pc = "gone"
         \/ \E k \in CloseIds : closer[k].pc = "closeChan" /\ closer'[k].pc = "returned")
          => ~updateChan.closed ]_vars

\* C32: emitting never blocks a read loop: the buffered updates never exceed
\* the channel's capacity, a read loop that holds an update can always take a
\* step, and with the buffer full (and no shutdown) that step skips the update
\* and returns to the head of the loop, leaving the stream as it was.
C32_EmitNeverBlocks ==
    /\ [](Len(updateChan.buf) <= ChanCap)
    /\ [](\A c \in ConnIds : (Alive /\ reader[c].pc = "send") => ENABLED ReadSend(c))
    /\ [][ \A c \in ConnIds :
             (reader[c].pc = "send" /\ ~SendReady /\ ~ctxDone /\ ~done
                /\ reader'[c] # reader[c])
               => (reader'[c].pc = "select" /\ updateChan' = updateChan) ]_vars

\* Binance (every frame is an update): the buffer is full, the frame read last
\* was not sent, and the read loop is back at the head of its loop
C32_Witness ==
    /\ venue = "binance" /\ Alive /\ ~ctxDone /\ ~done /\ ~updateChan.closed
    /\ Len(updateChan.buf) = ChanCap
    /\ lastSentSeq > 0 /\ venueSeq > lastSentSeq
    /\ \E c \in ConnIds : reader[c].pc = "select"

\* a reconnect routine has used up its attempts and returned
GaveUp == \E r \in ReconIds : recon[r].pc = "gaveup"

\* C33: on Kraken and Hyperliquid a reconnect routine dials in attempts 1..10
\* only, and once a routine has given up after the 10th failure no task of the
\* connector dials again and no reconnect routine is started.
C33_NoDialAfterGiveUp ==
    /\ [](\A r \in ReconIds : recon[r].pc = "dial" => recon[r].attempt \in 1..10)
    /\ [][ (HasReconnect /\ GaveUp)
             => /\ \A r \in ReconIds :
                     /\ recon[r].pc = "dial" => recon'[r].pc = "dial"
                     /\ recon[r].pc = "none" => recon'[r].pc = "none"
                /\ engine.pc = "dial" => engine'.pc = "dial" ]_vars

\* C34: whenever Connect returns an error, from the engine's call or from a
\* call made by reconnect, the connection that call opened is closed, e.wsConn
\* does not refer to a closed connection, no read loop and no heartbeat loop
\* was started, and health.Connected is false.
C34_ConnectErrorCleansUp ==
    [][ /\ (engine.pc \in {"dial", "sub"} /\ engine'.pc = "failed")
             => /\ engine.conn # 0 => connState'[engine.conn] = "closed"
                /\ wsConn' # 0 => connState'[wsConn'] # "closed"
                /\ reader' = reader /\ pinger' = pinger
                /\ ~connected'
        /\ \A r \in ReconIds :
             (recon[r].pc \in {"dial", "sub"} /\ recon'[r].pc = "check")
               => /\ recon[r].conn # 0 => connState'[recon[r].conn] = "closed"
                  /\ wsConn' # 0 => connState'[wsConn'] # "closed"
                  /\ reader' = reader /\ pinger' = pinger
                  /\ ~connected' ]_vars

\* C35: Binance GetSnapshot returns a snapshot as success only when the venue
\* answered the REST request with a success status and a decodable book; it
\* never returns the empty snapshot with id 0 as success.
C35_SnapshotOnlyOnSuccess ==
    (venue = "binance" /\ getSnap.pc = "returned" /\ getSnap.err = "nil")
      => (getSnap.status = 200 /\ getSnap.snap # 0)

\* C36: Bybit: every update built from a frame has first_id = final_id = the
\* frame's sequence number and prev_id = the sequence number of the book frame
\* the same read loop read before it (0 if none), except the first snapshot
\* frame, whose prev_id is its own final_id; and an update put on the stream
\* has prev_id equal to the final_id of the update put there before it exactly
\* when it is built from the very next frame, the first snapshot apart.
C36_BybitPrevId ==
    [][ venue = "bybit" =>
          /\ \A c \in ConnIds :
               (reader[c].pc = "read" /\ reader'[c].pc = "send")
                 => LET u == reader'[c].frame
                    IN  /\ u.first = venueSeq' /\ u.final = venueSeq'
                        /\ u.prev = IF snapshotReceived THEN reader[c].last ELSE u.final
          /\ (Len(updateChan'.buf) > Len(updateChan.buf) /\ lastSentSeq # 0)
               => LET v == updateChan'.buf[Len(updateChan'.buf)]
                  IN  (v.prev = lastEmitted) <=> (v.seq = lastSentSeq + 1) ]_vars

\* Bybit: a read loop holds the update of a frame whose predecessor was skipped
\* for a full buffer: its prev_id is the skipped frame's number, not the
\* final_id of the update sent last
C36_Witness ==
    /\ venue = "bybit"
    /\ lastEmitted # 0
    /\ \E c \in ConnIds :
         /\ reader[c].pc = "send"
         /\ reader[c].frame.first = reader[c].frame.final
         /\ reader[c].frame.prev = reader[c].frame.seq - 1
         /\ reader[c].frame.prev # lastEmitted

\* C37: under concurrent health updates by a connector's own tasks no update
\* is lost: message_count and error_count never decrease, and once the helpers
\* have returned each equals the number of increments made and
\* health.connected is what the last status update set.
C37_NoHealthUpdateLost ==
    /\ [][ /\ health'.messageCount >= health.messageCount
           /\ health'.errorCount >= health.errorCount ]_vars
    /\ []((\A t \in HealthTasks : healthTask[t].pc = "idle")
            => /\ health.messageCount = healthCalls.messages
               /\ health.errorCount = healthCalls.errors
               /\ health.connected = healthCalls.status)

\* sockets of the hook that are open or on their way to open
LiveSockets == {s \in SocketIds : hook.sockets[s] \in {"connecting", "open"}}

\* scheduled timers whose callback is connect
ConnectTimers ==
    hook.unnamedTimers + (IF hook.reconnectTimeoutRef = "scheduled" THEN 1 ELSE 0)

\* C38: one hook instance has at most one WebSocket open or pending and at
\* most one timer scheduled that will call connect, whatever the sequence of
\* open, message, close and visibility events.
C38_OneSocketOneTimer ==
    /\ Cardinality(LiveSockets) <= 1
    /\ ConnectTimers <= 1

\* C39: once the effect's cleanup has run, the hook instance creates no
\* WebSocket: neither the close event of the socket it closed nor a connect
\* that was awaiting the health check leads to one.
C39_NoSocketAfterCleanup ==
    [][ hook.cleanedUp => Created(hook') = Created(hook) ]_vars

====
